---------------------------- MODULE Spec2Model ----------------------------
(* Model of the battery Profiler (cmd/dockapp-battery/battery/battery.go)  *)
(* together with the parts of its environment that it talks to: the        *)
(* Guage it polls, the ticker, the state-change notifier of                *)
(* CreeperBatteryGuage, and the consumer of the output channel; of the      *)
(* format rotator RotateMetricsFormat (battery/metrics.go); and further    *)
(* components, each with a specification of its own in which the           *)
(* variables of the other components stay at their initial values.         *)
(*                                                                         *)
(* A metrics value is identified with the ordinal of the fetch that        *)
(* produced it (1 for the priming fetch, 2 for the next fetch started,     *)
(* ...); Nil is the nil *Metrics pointer.                                  *)
EXTENDS Integers, Sequences, FiniteSets, TLC

(* ------------------------------ bounds --------------------------------- *)

\* Number of fetches of the source that one run may start.
MaxFetch == 3

\* Largest number of formats given to the rotator.
MaxFormats == 3

\* Number of formats that the rotator's consumer receives in one run.
MaxRecv == 4

\* Number of callers of BatteryProfiler.Metrics().
MaxCallers == 2

\* Number of polls of the CPU counters that the Poller's loop may make.
MaxPoll == 3

\* Number of values the draw loop receives in one run.
MaxRaRecv == 4

\* Largest length of FilterCPU's ignore list and of a slice it receives.
MaxIgnore == 2
MaxCpus == 2

(* ------------------------- program constants --------------------------- *)

\* Capacity of the formatter channel that main hands to the rotator.
CapF == 1

\* Capacity of the output channel that main hands to Start.
CapC == 1

\* Capacity of the 'refreshed' channel that Start makes.
CapRefreshed == 1

\* Capacity of a time.Ticker's channel C.
CapTick == 1

\* Capacity of the Poller's channel C.
CapPollC == 1

\* ModeIdle, the index of the idle mode in InMode, counted from 0.
ModeIdle == 3

\* The nil *Metrics pointer (zero value of Profiler.metrics).
Nil == 0

\* "nothing yet" marker of the observation variables (never a value of the
\* program).
None == 0 - 1

VARIABLES
    pc,          \* position of Start: "init", "priming", "select", "returned"
    stopped,     \* b.stop is closed
    change,      \* b.change: "nil", "open" or "closed"
    relayPc,     \* notifier's relay goroutine: "off", "run", "exit"
    relay,       \* the relay goroutine's 'relay' channel variable is notf
    done,        \* the notifier's _done channel is closed
    tickerOn,    \* the ticker exists and has not been stopped
    tickC,       \* number of ticks buffered in tick.C
    refreshing,  \* Start's local flag
    refreshed,   \* contents of the 'refreshed' channel: sequence of errors
    tasks,       \* executions of refresh() that have not finished
    metrics,     \* b.metrics
    out,         \* contents of the output channel c
    nStarted,    \* observation: number of fetches started so far
    okDone,      \* observation: ordinals of fetches that returned no error
    atStop,      \* observation: ordinals of fetches in flight at Stop()
    lastPub,     \* observation: last value sent on c (None before the first)
    firstRecv,   \* observation: first value the consumer received
    dropped      \* observation: a tick or notification was received and
                 \* ignored since the latest fetch was started

envVars == << change, relayPc, relay, done, tickerOn, tickC >>
obsVars == << nStarted, okDone, atStop, lastPub, firstRecv, dropped >>

\* The format rotator.
VARIABLES
    rotPc,       \* RotateMetricsFormat: "off" (not part of the run), "run"
                 \* or "returned"
    rotItems,    \* the formats f
    rotI,        \* the index i
    rotArmed,    \* _c is c (FALSE: _c is nil)
    fmtC,        \* contents of the formatter channel c
    rotTickC,    \* number of ticks buffered in the rotator's tick.C
    rotTickerOn, \* the rotator's ticker has not been stopped
    rotStopReq,  \* the application has asked its background tasks to stop
    rotPaced,    \* the consumer receives exactly once per interval
    rotRecvd,    \* paced consumer: it has received in the current interval
    rotRecvN,    \* observation: number of formats the consumer received
    rotLastSent, \* observation: index of the format sent last (None: none)
    rotResent,   \* observation: some send had the index of the send before
    rotIdxChanged \* observation: the index has changed since the last send

rotVars == << rotPc, rotItems, rotI, rotArmed, fmtC, rotTickC, rotTickerOn,
              rotStopReq, rotPaced, rotRecvd, rotRecvN, rotLastSent,
              rotResent, rotIdxChanged >>

\* The mutex-guarded metrics cell of the Profiler, at the granularity of
\* the single lock operations.
VARIABLES
    muPc,        \* position of each user of the cell
    muW,         \* who holds b.mut for writing ("none": nobody)
    muR,         \* who holds b.mut for reading
    muCell,      \* b.metrics
    muVal,       \* the metrics that the fetch task is about to store
    muGot        \* the value each reader read last

muVars == << muPc, muW, muR, muCell, muVal, muGot >>

\* The reply-channel variant of the profiler (BatteryProfiler).
VARIABLES
    bpPc,        \* position of Start: "init", "select", "refresh" (inside
                 \* refreshMetrics), "returned"
    bpPing,      \* Start's local 'ping': Nil, or the caller whose reply
                 \* channel it holds
    bpStopped,   \* b.stop is closed
    bpTickerOn,  \* the ticker exists and has not been stopped
    bpTickC,     \* number of ticks buffered in tick.C
    bpMetrics,   \* b.metrics
    bpOut,       \* contents of the output channel c
    bpCaller,    \* each caller of Metrics(): "idle", "ping" (blocked in
                 \* 'b.ping <- resp'), "wait" (blocked in '<-resp', which
                 \* is empty), "reply" (resp holds the answer), "done"
                 \* (Metrics() has returned)
    bpResp,      \* the value in each caller's resp channel
    bpGot,       \* the value Metrics() returned to each caller
    bpCb,        \* the state-change callback: "idle" or "send" (blocked in
                 \* 'b.connect <- struct{}{}')
    bpFetches,   \* observation: number of calls of refreshMetrics that
                 \* have returned
    bpLastPub,   \* observation: last value sent on c (None before the first)
    bpEarly      \* observation: the callers that entered Metrics() while
                 \* Start had not been called

bpVars == << bpPc, bpPing, bpStopped, bpTickerOn, bpTickC, bpMetrics, bpOut,
             bpCaller, bpResp, bpGot, bpCb, bpFetches, bpLastPub,
             bpEarly >>

\* The CPU monitor's pipeline: the Poller and the Delta stage that reads
\* the Poller's channel.
VARIABLES
    plPc,        \* Poller.loop: "off" (not part of the run), "loop",
                 \* "returned"
    plStopped,   \* p.stop is closed
    plTickerOn,  \* p.tick has not been stopped
    plTickC,     \* number of ticks buffered in p.tick.C
    plTimes,     \* p.times
    plArmed,     \* the loop's c is p.C (FALSE: c is nil)
    plC,         \* contents of p.C
    plCClosed,   \* p.C is closed
    plNPoll,     \* observation: number of calls of ReadTime by the loop
    plNOk,       \* observation: number of those calls that returned no
                 \* error
    dlPc,        \* Delta's goroutine: "off", "run", "returned", "panic"
    dlOld,       \* told (<< >>: nil)
    dlDelta,     \* tdelta
    dlArmed,     \* _d is d (FALSE: _d is nil)
    dlOutClosed, \* d is closed
    dlPrev,      \* observation: the sample received before told
    dlLastGot,   \* observation: the value the consumer of d received last
    dlNGot,      \* observation: number of values received from d
    dlNRecv      \* observation: number of samples Delta received

cpuVars == << plPc, plStopped, plTickerOn, plTickC, plTimes, plArmed, plC,
              plCClosed, plNPoll, plNOk, dlPc, dlOld, dlDelta, dlArmed,
              dlOutClosed, dlPrev, dlLastGot, dlNGot, dlNRecv >>

\* The stages of the CPU monitor after Delta: TimeToCPU, FilterCPU and the
\* draw loop RunApp.
VARIABLES
    tcPc,        \* TimeToCPU's goroutine: "off", "recv", "send", "returned"
    tcCpus,      \* the slice it is about to send
    tcCClosed,   \* its channel c is closed
    ffPc,        \* FilterCPU's goroutine: "off", "none" (empty ignore list,
                 \* no goroutine), "recv", "send", "returned"
    ffIgnore,    \* the ignore list
    ffCpus,      \* the slice it is about to send
    ffCClosed,   \* its channel c is closed
    appPc,       \* RunApp: "off", "recv", "returned", "panic"
    appLast,     \* observation: the slice drawn last
    appDone      \* app.done is closed

dsVars == << tcPc, tcCpus, tcCClosed, ffPc, ffIgnore, ffCpus, ffCClosed,
             appPc, appLast, appDone >>

\* The relay goroutine of CreeperBatteryGuage.BatteryStateChange.
VARIABLES
    rlPc,        \* the goroutine: "off", "run", "exit"
    rlSig,       \* the paths of the signals waiting in g.sig
    rlSigClosed, \* g.sig is closed
    rlArmed,     \* relay is notf (FALSE: relay is nil)
    rlDone,      \* _done is closed
    rlOwn,       \* observation: signals of the watched device taken since
                 \* the last notification was delivered
    rlNOwn,      \* observation: signals of the watched device taken
    rlNDeliv,    \* observation: notifications delivered
    rlNSig       \* observation: signals put into g.sig

rlVars == << rlPc, rlSig, rlSigClosed, rlArmed, rlDone, rlOwn, rlNOwn,
             rlNDeliv, rlNSig >>

\* FilterCPU.
VARIABLES
    fcPc,        \* "off"; "none" (no goroutine: the input channel was
                 \* returned); "recv" (at 'range cpus'); "send" (at
                 \* 'c <- cpus'); "returned"
    fcIgnore,    \* the ignore list
    fcIn,        \* the slice received last
    fcCpus,      \* the goroutine's filtered slice, waiting to be sent
    fcClosed,    \* the input channel is closed
    fcOut        \* the slice the consumer received last

fcVars == << fcPc, fcIgnore, fcIn, fcCpus, fcClosed, fcOut >>

\* One call of Time.FracUtil.
VARIABLES
    frPc,        \* "off", "call", "done"
    frT,         \* t.InMode
    frRes        \* the float64 returned

frVars == << frPc, frT, frRes >>

\* One call of parseGeometry.
VARIABLES
    pgPc,        \* "off", "call", "done"
    pgIn,        \* the string s, a sequence of characters
    pgOut        \* the rectangle and the error returned

pgVars == << pgPc, pgIn, pgOut >>

\* The battery draw loop RunApp.
VARIABLES
    raPc,        \* "off", "loop", "panic"
    raM,         \* RunApp's m
    raF,         \* RunApp's f
    raMC,        \* contents of the metrics channel
    raFC,        \* contents of the formatter channel
    raLastM,     \* observation: value received last from the metrics channel
    raLastF,     \* observation: value received last from the formatter
                 \* channel
    raDrawn,     \* observation: the arguments of the last app.Draw
    raNDraw,     \* observation: number of calls of app.Draw
    raNRecv      \* observation: number of receipts on either channel

raVars == << raPc, raM, raF, raMC, raFC, raLastM, raLastF, raDrawn, raNDraw,
             raNRecv >>

profVars == << pc, stopped, change, relayPc, relay, done, tickerOn, tickC,
               refreshing, refreshed, tasks, metrics, out,
               nStarted, okDone, atStop, lastPub, firstRecv, dropped >>

vars == << profVars, rotVars, muVars, bpVars, cpuVars, fcVars, frVars,
          pgVars, raVars, dsVars, rlVars >>

\* What the actions of the Profiler leave alone.
notProf == << rotVars, muVars, bpVars, cpuVars, fcVars, frVars, pgVars,
             raVars, dsVars,
              rlVars >>

\* What the actions of the rotator leave alone.
notRot == << profVars, muVars, bpVars, cpuVars, fcVars, frVars, pgVars,
            raVars, dsVars,
             rlVars >>

\* What the steps on the mutex leave alone.
notMu == << profVars, rotVars, bpVars, cpuVars, fcVars, frVars, pgVars,
           raVars, dsVars,
            rlVars >>

\* What the actions of the BatteryProfiler leave alone.
notBp == << profVars, rotVars, muVars, cpuVars, fcVars, frVars, pgVars,
           raVars, dsVars,
            rlVars >>

\* What the actions of the CPU pipeline leave alone.
notCpu == << profVars, rotVars, muVars, bpVars, fcVars, frVars, pgVars,
            raVars, dsVars,
             rlVars >>

\* What FilterCPU leaves alone.
notFc == << profVars, rotVars, muVars, bpVars, cpuVars, frVars, pgVars,
           raVars, dsVars,
            rlVars >>

\* What FracUtil leaves alone.
notFr == << profVars, rotVars, muVars, bpVars, cpuVars, fcVars, pgVars,
           raVars, dsVars,
            rlVars >>

\* What parseGeometry leaves alone.
notPg == << profVars, rotVars, muVars, bpVars, cpuVars, fcVars, frVars,
           raVars, dsVars,
            rlVars >>

\* What RunApp leaves alone.
notRa == << profVars, rotVars, muVars, bpVars, cpuVars, fcVars, frVars,
           pgVars, dsVars,
            rlVars >>

\* What the stages after Delta leave alone besides the Poller and Delta,
\* and what a step of the Poller or of Delta that does not hand a value
\* to them leaves alone.
notPipe == << profVars, rotVars, muVars, bpVars, fcVars, frVars, pgVars,
             raVars, rlVars >>

\* What the relay goroutine leaves alone.
notRl == << profVars, rotVars, muVars, bpVars, cpuVars, fcVars, frVars,
           pgVars, raVars, dsVars >>

\* The users of the cell: the refresh task in refreshMetrics, Start's
\* publish step in batteryMetrics, and a caller of BatteryMetrics().
MuWriters == {"fetch"}
MuReaders == {"pub", "get"}

\* Nobody uses the cell, which holds nil.
MuIdle ==
    /\ muPc = [p \in MuWriters \cup MuReaders |-> "idle"]
    /\ muW = "none"
    /\ muR = {}
    /\ muCell = Nil
    /\ muVal = Nil
    /\ muGot = [p \in MuReaders |-> None]

BpCallers == 1..MaxCallers

\* The BatteryProfiler as NewBatteryProfiler returns it.
BpNew ==
    /\ bpPc = "init"
    /\ bpPing = Nil
    /\ bpStopped = FALSE
    /\ bpTickerOn = FALSE
    /\ bpTickC = 0
    /\ bpMetrics = Nil
    /\ bpOut = << >>
    /\ bpCaller = [c \in BpCallers |-> "idle"]
    /\ bpResp = [c \in BpCallers |-> None]
    /\ bpGot = [c \in BpCallers |-> None]
    /\ bpCb = "idle"
    /\ bpFetches = 0
    /\ bpLastPub = None
    /\ bpEarly = {}

\* The CPU pipeline is not part of the run.
CpuOff ==
    /\ plPc = "off"
    /\ plStopped = FALSE
    /\ plTickerOn = FALSE
    /\ plTickC = 0
    /\ plTimes = << >>
    /\ plArmed = FALSE
    /\ plC = << >>
    /\ plCClosed = FALSE
    /\ plNPoll = 0
    /\ plNOk = 0
    /\ dlPc = "off"
    /\ dlOld = << >>
    /\ dlDelta = << >>
    /\ dlArmed = FALSE
    /\ dlOutClosed = FALSE
    /\ dlPrev = << >>
    /\ dlLastGot = << >>
    /\ dlNGot = 0
    /\ dlNRecv = 0

\* FilterCPU, FracUtil, parseGeometry and RunApp are not part of the run.
FcOff ==
    /\ fcPc = "off" /\ fcIgnore = << >> /\ fcIn = << >> /\ fcOut = << >>
    /\ fcCpus = << >> /\ fcClosed = FALSE
FrOff == frPc = "off" /\ frT = << >> /\ frRes = None
PgOff == pgPc = "off" /\ pgIn = << >> /\ pgOut = None
RaOff ==
    /\ raPc = "off"
    /\ raM = Nil
    /\ raF = Nil
    /\ raMC = << >>
    /\ raFC = << >>
    /\ raLastM = None
    /\ raLastF = None
    /\ raDrawn = << >>
    /\ raNDraw = 0
    /\ raNRecv = 0

\* The stages after Delta are not part of the run: whoever receives from
\* Delta's channel is always ready.
DsOff ==
    /\ tcPc = "off"
    /\ tcCpus = << >>
    /\ tcCClosed = FALSE
    /\ ffPc = "off"
    /\ ffIgnore = << >>
    /\ ffCpus = << >>
    /\ ffCClosed = FALSE
    /\ appPc = "off"
    /\ appLast = << >>
    /\ appDone = FALSE

\* The explicit relay goroutine is not part of the run.
RlOff ==
    /\ rlPc = "off"
    /\ rlSig = << >>
    /\ rlSigClosed = FALSE
    /\ rlArmed = FALSE
    /\ rlDone = FALSE
    /\ rlOwn = 0
    /\ rlNOwn = 0
    /\ rlNDeliv = 0
    /\ rlNSig = 0

\* Everything but the battery Profiler's own parts is idle.
OthersOff == CpuOff /\ FcOff /\ FrOff /\ PgOff /\ RaOff /\ DsOff /\ RlOff

\* The rotator is not part of the run.
RotOff ==
    /\ rotPc = "off"
    /\ rotItems = << >>
    /\ rotI = 0
    /\ rotArmed = FALSE
    /\ fmtC = << >>
    /\ rotTickC = 0
    /\ rotTickerOn = FALSE
    /\ rotStopReq = FALSE
    /\ rotPaced = FALSE
    /\ rotRecvd = FALSE
    /\ rotRecvN = 0
    /\ rotLastSent = None
    /\ rotResent = FALSE
    /\ rotIdxChanged = FALSE

(* ------------------------------ helpers -------------------------------- *)

\* A running refresh(): 'id' is the fetch's ordinal, 'st' is "call" while
\* Guage.BatteryMetrics has not returned and "send" while the error waits
\* to be sent on 'refreshed'; 'err' is the error (TRUE: non-nil) once
\* known; 'before' is b.metrics when the fetch was started.
Task == [id : 1..(MaxFetch + 1), st : {"call", "send"}, err : BOOLEAN,
         before : 0..(MaxFetch + 1)]

NewTask(n, m) == [id |-> n, st |-> "call", err |-> FALSE, before |-> m]

InCall == {t \in tasks : t.st = "call"}

MaxOf(S) == IF S = {} THEN Nil ELSE CHOOSE x \in S : \A y \in S : y <= x

\* Variants of refreshMetrics: one that stores the Guage's (nil) result also
\* when it reports an error, one that discards a result arriving after Stop.
refreshMetricsStoreAlways(cur, m, err) == IF err THEN Nil ELSE m

refreshMetricsDiscardAfterStop(cur, m, err) ==
    IF err \/ stopped THEN cur ELSE m

\* Profiler.refreshMetrics: the new value of b.metrics after the Guage
\* returned (m, err).
refreshMetrics(cur, m, err) == IF err THEN cur ELSE m

\* Profiler.batteryMetrics: the locked read of b.metrics.
batteryMetrics == metrics

\* Variant of the guard that ignores the flag.
LaunchAlways(r) == TRUE

\* The guard 'if !refreshing' of the change and tick cases.
LaunchOnTrigger(r) == ~r

\* Variant of the send that replaces the value waiting in a full channel.
PublishReplace(q, v) == IF Len(q) < CapC THEN Append(q, v) ELSE << v >>

\* The non-blocking send 'select { case c <- v: default: }'.
Publish(q, v) == IF Len(q) < CapC THEN Append(q, v) ELSE q

(* ------------------------------- Init ---------------------------------- *)

\* The Profiler as NewProfiler returns it, before Start and Stop.
ProfNew ==
    /\ pc = "init"
    /\ stopped = FALSE
    /\ change = "nil"
    /\ relayPc = "off"
    /\ relay = FALSE
    /\ done = FALSE
    /\ tickerOn = FALSE
    /\ tickC = 0
    /\ refreshing = FALSE
    /\ refreshed = << >>
    /\ tasks = {}
    /\ metrics = Nil
    /\ out = << >>
    /\ nStarted = 0
    /\ okDone = {}
    /\ atStop = {}
    /\ lastPub = None
    /\ firstRecv = None
    /\ dropped = FALSE

Init == ProfNew /\ RotOff /\ MuIdle /\ BpNew /\ OthersOff

(* ------------------------------ actions -------------------------------- *)

\* Variant of Start that looks at the stop channel before the priming
\* fetch and returns at once when it is closed.
StartBeginUnlessStopped(w) ==
    /\ pc = "init"
    /\ pc' = IF stopped THEN "returned" ELSE "priming"
    /\ change' = CASE w = "nil" -> "nil"
                   [] w = "closed" -> "closed"
                   [] OTHER -> "open"
    /\ relayPc' = CASE w = "run" -> "run"
                    [] w = "exit" -> "exit"
                    [] OTHER -> "off"
    /\ tickerOn' = ~stopped
    /\ refreshing' = ~stopped
    /\ tasks' = IF stopped THEN tasks
                ELSE tasks \cup {NewTask(nStarted + 1, metrics)}
    /\ nStarted' = IF stopped THEN nStarted ELSE nStarted + 1
    /\ UNCHANGED << stopped, relay, done, tickC, refreshed, metrics, out,
                    okDone, atStop, lastPub, firstRecv, dropped >>
    /\ UNCHANGED notProf


\* Start up to the call of refresh(): watchState, the ticker, the flag and
\* the synchronous call.  'w' is the outcome of watchState:
\*   "nil"    the Guage is no StateNotifier, b.change stays nil;
\*   "closed" BatteryStateChange could not subscribe and closed notf;
\*   "run"    the relay goroutine is running;
\*   "exit"   the relay goroutine started and returned (reconnect failed).
StartBegin(w) ==
    /\ pc = "init"
    /\ pc' = "priming"
    /\ change' = CASE w = "nil" -> "nil"
                   [] w = "closed" -> "closed"
                   [] OTHER -> "open"
    /\ relayPc' = CASE w = "run" -> "run"
                    [] w = "exit" -> "exit"
                    [] OTHER -> "off"
    /\ tickerOn' = TRUE
    /\ refreshing' = TRUE
    /\ tasks' = tasks \cup {NewTask(nStarted + 1, metrics)}
    /\ nStarted' = nStarted + 1
    /\ UNCHANGED << stopped, relay, done, tickC, refreshed, metrics, out,
                    okDone, atStop, lastPub, firstRecv, dropped >>
    /\ UNCHANGED notProf

\* Guage.BatteryMetrics returns in task t, with an error or with metrics,
\* and refreshMetrics stores the result.
FetchReturn(t, err) ==
    /\ t \in tasks
    /\ t.st = "call"
    /\ metrics' = refreshMetrics(metrics, t.id, err)
    /\ tasks' = (tasks \ {t}) \cup {[t EXCEPT !.st = "send", !.err = err]}
    /\ okDone' = IF err THEN okDone ELSE okDone \cup {t.id}
    /\ UNCHANGED << pc, stopped, envVars, refreshing, refreshed, out,
                    nStarted, atStop, lastPub, firstRecv, dropped >>
    /\ UNCHANGED notProf

\* 'refreshed <- err' of task t; the priming call then returns into Start's
\* loop.
FetchSend(t) ==
    /\ t \in tasks
    /\ t.st = "send"
    /\ Len(refreshed) < CapRefreshed
    /\ refreshed' = Append(refreshed, t.err)
    /\ tasks' = tasks \ {t}
    /\ pc' = IF pc = "priming" THEN "select" ELSE pc
    /\ UNCHANGED << stopped, envVars, refreshing, metrics, out, obsVars >>
    /\ UNCHANGED notProf

\* Profiler.Stop.
Stop ==
    /\ ~stopped
    /\ stopped' = TRUE
    /\ atStop' = {t.id : t \in InCall}
    /\ UNCHANGED << pc, envVars, refreshing, refreshed, tasks, metrics, out,
                    nStarted, okDone, lastPub, firstRecv, dropped >>
    /\ UNCHANGED notProf

\* The ticker fires; a tick that finds the channel full is dropped.
Tick ==
    /\ tickerOn
    /\ tickC < CapTick
    /\ tickC' = tickC + 1
    /\ UNCHANGED << pc, stopped, change, relayPc, relay, done, tickerOn,
                    refreshing, refreshed, tasks, metrics, out, obsVars >>
    /\ UNCHANGED notProf

\* The relay goroutine receives a change signal for the watched device.
Signal ==
    /\ relayPc = "run"
    /\ ~relay
    /\ relay' = TRUE
    /\ UNCHANGED << pc, stopped, change, relayPc, done, tickerOn, tickC,
                    refreshing, refreshed, tasks, metrics, out, obsVars >>
    /\ UNCHANGED notProf

\* The relay goroutine finds g.sig closed and its reconnect fails: it
\* returns with _done open, and what it was about to relay is never sent.
RelayFail ==
    /\ relayPc = "run"
    /\ relayPc' = "exit"
    /\ UNCHANGED << pc, stopped, change, relay, done, tickerOn, tickC,
                    refreshing, refreshed, tasks, metrics, out, obsVars >>
    /\ UNCHANGED notProf

\* The relay goroutine takes 'case <-_done' and returns.
RelayDone ==
    /\ relayPc = "run"
    /\ done
    /\ relayPc' = "exit"
    /\ UNCHANGED << pc, stopped, change, relay, done, tickerOn, tickC,
                    refreshing, refreshed, tasks, metrics, out, obsVars >>
    /\ UNCHANGED notProf

\* Variant of the stop case that is taken only when no other case is ready.
SelectStopLast ==
    /\ pc = "select"
    /\ stopped
    /\ tickC = 0
    /\ Len(refreshed) = 0
    /\ pc' = "returned"
    /\ tickerOn' = FALSE
    /\ done' = IF relayPc = "off" THEN done ELSE TRUE
    /\ UNCHANGED << stopped, change, relayPc, relay, tickC, refreshing,
                    refreshed, tasks, metrics, out, obsVars >>
    /\ UNCHANGED notProf

\* Variant of the stop case whose return does not call watchStop().
SelectStopNoUnsubscribe ==
    /\ pc = "select"
    /\ stopped
    /\ pc' = "returned"
    /\ tickerOn' = FALSE
    /\ UNCHANGED << stopped, change, relayPc, relay, done, tickC, refreshing,
                    refreshed, tasks, metrics, out, obsVars >>
    /\ UNCHANGED notProf

\* 'case <-b.stop: return', with the deferred tick.Stop() and watchStop().
SelectStop ==
    /\ pc = "select"
    /\ stopped
    /\ pc' = "returned"
    /\ tickerOn' = FALSE
    /\ done' = IF relayPc = "off" THEN done ELSE TRUE
    /\ UNCHANGED << stopped, change, relayPc, relay, tickC, refreshing,
                    refreshed, tasks, metrics, out, obsVars >>
    /\ UNCHANGED notProf

\* 'case <-b.change': a rendezvous with the relay goroutine's send, or the
\* zero value of a closed channel.
SelectChange ==
    /\ pc = "select"
    /\ \/ change = "open" /\ relayPc = "run" /\ relay
       \/ change = "closed"
    /\ relay' = FALSE
    /\ IF LaunchOnTrigger(refreshing)
         THEN /\ nStarted < MaxFetch
              /\ refreshing' = TRUE
              /\ tasks' = tasks \cup {NewTask(nStarted + 1, metrics)}
              /\ nStarted' = nStarted + 1
              /\ dropped' = FALSE
         ELSE /\ dropped' = TRUE
              /\ UNCHANGED << refreshing, tasks, nStarted >>
    /\ UNCHANGED << pc, stopped, change, relayPc, done, tickerOn, tickC,
                    refreshed, metrics, out, okDone, atStop, lastPub,
                    firstRecv >>
    /\ UNCHANGED notProf

\* Variant of the tick case that calls refresh() synchronously, as the
\* priming fetch is called.
SelectTickSync ==
    /\ pc = "select"
    /\ tickC > 0
    /\ tickC' = tickC - 1
    /\ IF LaunchOnTrigger(refreshing)
         THEN /\ nStarted < MaxFetch
              /\ pc' = "priming"
              /\ refreshing' = TRUE
              /\ tasks' = tasks \cup {NewTask(nStarted + 1, metrics)}
              /\ nStarted' = nStarted + 1
              /\ dropped' = FALSE
         ELSE /\ dropped' = TRUE
              /\ UNCHANGED << pc, refreshing, tasks, nStarted >>
    /\ UNCHANGED << stopped, change, relayPc, relay, done, tickerOn,
                    refreshed, metrics, out, okDone, atStop, lastPub,
                    firstRecv >>
    /\ UNCHANGED notProf

\* 'case <-tick.C'.
SelectTick ==
    /\ pc = "select"
    /\ tickC > 0
    /\ tickC' = tickC - 1
    /\ IF LaunchOnTrigger(refreshing)
         THEN /\ nStarted < MaxFetch
              /\ refreshing' = TRUE
              /\ tasks' = tasks \cup {NewTask(nStarted + 1, metrics)}
              /\ nStarted' = nStarted + 1
              /\ dropped' = FALSE
         ELSE /\ dropped' = TRUE
              /\ UNCHANGED << refreshing, tasks, nStarted >>
    /\ UNCHANGED << pc, stopped, change, relayPc, relay, done, tickerOn,
                    refreshed, metrics, out, okDone, atStop, lastPub,
                    firstRecv >>
    /\ UNCHANGED notProf

\* Variant of the completion case with a blocking send on c: the handler
\* finishes only when the value can be delivered.
SelectRefreshedBlocking ==
    /\ pc = "select"
    /\ Len(refreshed) > 0
    /\ Len(out) < CapC
    /\ refreshed' = Tail(refreshed)
    /\ refreshing' = FALSE
    /\ out' = Append(out, batteryMetrics)
    /\ lastPub' = batteryMetrics
    /\ UNCHANGED << pc, stopped, envVars, tasks, metrics,
                    nStarted, okDone, atStop, firstRecv, dropped >>
    /\ UNCHANGED notProf

\* 'case err := <-refreshed' with the non-blocking send of the latest
\* metrics on c.
SelectRefreshed ==
    /\ pc = "select"
    /\ Len(refreshed) > 0
    /\ refreshed' = Tail(refreshed)
    /\ refreshing' = FALSE
    /\ out' = Publish(out, batteryMetrics)
    /\ lastPub' = IF out' # out THEN batteryMetrics ELSE lastPub
    /\ UNCHANGED << pc, stopped, envVars, tasks, metrics,
                    nStarted, okDone, atStop, firstRecv, dropped >>
    /\ UNCHANGED notProf

\* The consumer (RunApp) receives from the output channel.
Consume ==
    /\ Len(out) > 0
    /\ out' = Tail(out)
    /\ firstRecv' = IF firstRecv = None THEN Head(out) ELSE firstRecv
    /\ UNCHANGED << pc, stopped, envVars, refreshing, refreshed, tasks,
                    metrics, nStarted, okDone, atStop, lastPub, dropped >>
    /\ UNCHANGED notProf

Next ==
    \/ \E w \in {"nil", "closed", "run", "exit"} : StartBegin(w)
    \/ \E t \in tasks, err \in BOOLEAN : FetchReturn(t, err)
    \/ \E t \in tasks : FetchSend(t)
    \/ Stop
    \/ Tick
    \/ Signal
    \/ RelayFail
    \/ RelayDone
    \/ SelectStop
    \/ SelectChange
    \/ SelectTick
    \/ SelectRefreshed
    \/ Consume

Spec == Init /\ [][Next]_vars

\* Go's select chooses uniformly among the ready cases, so a case that
\* stays ready is eventually taken.
FairSpec == Spec /\ WF_vars(SelectStop)


\* A fetch goroutine runs on its own: the call to the Guage returns and the
\* goroutine's send is performed as soon as the channel has room.
FetchFairSpec ==
    /\ Spec
    /\ WF_vars(\E t \in tasks : \E err \in BOOLEAN : FetchReturn(t, err))
    /\ WF_vars(\E t \in tasks : FetchSend(t))

\* The relay goroutine's select chooses uniformly among its ready cases and
\* <-_done stays ready once _done is closed, so it is eventually taken.
RelayFairSpec == Spec /\ WF_vars(RelayDone)

TypeOK ==
    /\ pc \in {"init", "priming", "select", "returned"}
    /\ stopped \in BOOLEAN
    /\ change \in {"nil", "open", "closed"}
    /\ relayPc \in {"off", "run", "exit"}
    /\ relay \in BOOLEAN
    /\ done \in BOOLEAN
    /\ tickerOn \in BOOLEAN
    /\ tickC \in 0..CapTick
    /\ refreshing \in BOOLEAN
    /\ refreshed \in Seq(BOOLEAN)
    /\ tasks \subseteq Task
    /\ metrics \in 0..(MaxFetch + 1)
    /\ out \in Seq(0..(MaxFetch + 1))
    /\ nStarted \in 0..(MaxFetch + 1)
    /\ dropped \in BOOLEAN

(* --------------------------- format rotator ---------------------------- *)

\* The formats that a run may hand to the rotator, by name.
Formats == << "A", "B", "C", "D" >>

\* Variant of the index step that advances by two.
NextIndexSkip(i, n) == (i + 2) % n

\* 'i = (i + 1) % len(f)'.
NextIndex(i, n) == (i + 1) % n

\* RotateMetricsFormat has been started with n formats and has created its
\* ticker; 'paced' chooses the consumer that receives once per interval.
RotInit ==
    /\ ProfNew
    /\ MuIdle
    /\ BpNew
    /\ OthersOff
    /\ rotPc = "run"
    /\ \E n \in 1..MaxFormats : rotItems = SubSeq(Formats, 1, n)
    /\ rotI = 0
    /\ rotArmed = TRUE
    /\ fmtC = << >>
    /\ rotTickC = 0
    /\ rotTickerOn = TRUE
    /\ rotStopReq = FALSE
    /\ rotPaced \in BOOLEAN
    /\ rotRecvd = FALSE
    /\ rotRecvN = 0
    /\ rotLastSent = None
    /\ rotResent = FALSE
    /\ rotIdxChanged = FALSE

\* Variant of the send case that keeps _c.
RotSendKeep ==
    /\ rotPc = "run"
    /\ rotArmed
    /\ Len(fmtC) < CapF
    /\ fmtC' = Append(fmtC, rotItems[rotI + 1])
    /\ rotResent' = (rotResent \/ rotLastSent = rotI)
    /\ rotIdxChanged' = FALSE
    /\ rotLastSent' = rotI
    /\ UNCHANGED << rotPc, rotItems, rotI, rotArmed, rotTickC, rotTickerOn,
                    rotStopReq, rotPaced, rotRecvd, rotRecvN >>
    /\ UNCHANGED notRot

\* 'case _c <- f[i]: _c = nil'.
RotSend ==
    /\ rotPc = "run"
    /\ rotArmed
    /\ Len(fmtC) < CapF
    /\ fmtC' = Append(fmtC, rotItems[rotI + 1])
    /\ rotArmed' = FALSE
    /\ rotResent' = (rotResent \/ rotLastSent = rotI)
    /\ rotIdxChanged' = FALSE
    /\ rotLastSent' = rotI
    /\ UNCHANGED << rotPc, rotItems, rotI, rotTickC, rotTickerOn,
                    rotStopReq, rotPaced, rotRecvd, rotRecvN >>
    /\ UNCHANGED notRot

\* Variant of the tick case that is taken only when nothing is to be sent,
\* as with a blocking send.
RotTickAfterSend ==
    /\ rotPc = "run"
    /\ rotTickC > 0
    /\ ~rotArmed
    /\ rotTickC' = rotTickC - 1
    /\ rotI' = NextIndex(rotI, Len(rotItems))
    /\ rotArmed' = TRUE
    /\ UNCHANGED << rotPc, rotItems, fmtC, rotTickerOn, rotStopReq, rotPaced,
                    rotRecvd, rotRecvN, rotLastSent, rotResent >>
    /\ rotIdxChanged' = (rotIdxChanged \/ rotI' # rotI)
    /\ UNCHANGED notRot

\* 'case <-tick.C: i = (i + 1) % len(f); _c = c'.
RotTick ==
    /\ rotPc = "run"
    /\ rotTickC > 0
    /\ rotTickC' = rotTickC - 1
    /\ rotI' = NextIndex(rotI, Len(rotItems))
    /\ rotArmed' = TRUE
    /\ UNCHANGED << rotPc, rotItems, fmtC, rotTickerOn, rotStopReq, rotPaced,
                    rotRecvd, rotRecvN, rotLastSent, rotResent >>
    /\ rotIdxChanged' = (rotIdxChanged \/ rotI' # rotI)
    /\ UNCHANGED notRot

\* The rotator's ticker fires.  With the paced consumer an interval ends
\* only after the consumer's receive of that interval.
RotTimer ==
    /\ rotTickerOn
    /\ rotTickC < CapTick
    /\ rotPaced => rotRecvd
    /\ rotTickC' = rotTickC + 1
    /\ rotRecvd' = FALSE
    /\ UNCHANGED << rotPc, rotItems, rotI, rotArmed, fmtC, rotTickerOn,
                    rotStopReq, rotPaced, rotRecvN, rotLastSent, rotResent,
                    rotIdxChanged >>
    /\ UNCHANGED notRot

\* The consumer (RunApp) receives a format; the paced consumer does so once
\* per interval.
RotRecv ==
    /\ Len(fmtC) > 0
    /\ rotRecvN < MaxRecv
    /\ rotPaced => ~rotRecvd
    /\ fmtC' = Tail(fmtC)
    /\ rotRecvN' = rotRecvN + 1
    /\ rotRecvd' = rotPaced
    /\ UNCHANGED << rotPc, rotItems, rotI, rotArmed, rotTickC, rotTickerOn,
                    rotStopReq, rotPaced, rotLastSent, rotResent,
                    rotIdxChanged >>
    /\ UNCHANGED notRot

\* The application shuts down (main's deferred calls run); nothing of this
\* reaches RotateMetricsFormat, which takes no stop channel.
RotStopRequest ==
    /\ rotPc = "run"
    /\ ~rotStopReq
    /\ rotStopReq' = TRUE
    /\ UNCHANGED << rotPc, rotItems, rotI, rotArmed, fmtC, rotTickC,
                    rotTickerOn, rotPaced, rotRecvd, rotRecvN, rotLastSent,
                    rotResent, rotIdxChanged >>
    /\ UNCHANGED notRot

RotNext ==
    \/ RotSend
    \/ RotTick
    \/ RotTimer
    \/ RotRecv
    \/ RotStopRequest

RotSpec == RotInit /\ [][RotNext]_vars

\* A select case that stays ready is eventually taken.
RotFairSpec == RotSpec /\ WF_vars(RotSend) /\ WF_vars(RotTick)

RotTypeOK ==
    /\ rotIdxChanged \in BOOLEAN
    /\ rotPc \in {"off", "run", "returned"}
    /\ rotI \in 0..MaxFormats
    /\ rotArmed \in BOOLEAN
    /\ Len(fmtC) <= CapF
    /\ rotTickC \in 0..CapTick
    /\ rotRecvN \in 0..(MaxRecv + 1)

(* ------------------------- the metrics cell ---------------------------- *)

\* Number of distinct metrics values that fetches store in the cell.
MaxVal == 2

\* refreshMetrics has its metrics m (no error) and is about to lock; the
\* fetch and Start's publish step never overlap, because Start starts a
\* fetch only from its select and publishes only on a completion.
MuBeginWrite(p, v) ==
    /\ p \in MuWriters
    /\ muPc[p] = "idle"
    /\ muPc["pub"] = "idle"
    /\ muVal' = v
    /\ muPc' = [muPc EXCEPT ![p] = "lock"]
    /\ UNCHANGED << muW, muR, muCell, muGot >>
    /\ UNCHANGED notMu

\* 'b.mut.Lock()'.
MuLock(p) ==
    /\ p \in MuWriters
    /\ muPc[p] = "lock"
    /\ muW = "none"
    /\ muR = {}
    /\ muW' = p
    /\ muPc' = [muPc EXCEPT ![p] = "write"]
    /\ UNCHANGED << muR, muCell, muVal, muGot >>
    /\ UNCHANGED notMu

\* 'b.metrics = m'.
MuWrite(p) ==
    /\ p \in MuWriters
    /\ muPc[p] = "write"
    /\ muCell' = muVal
    /\ muPc' = [muPc EXCEPT ![p] = "unlock"]
    /\ UNCHANGED << muW, muR, muVal, muGot >>
    /\ UNCHANGED notMu

\* 'b.mut.Unlock()'.
MuUnlock(p) ==
    /\ p \in MuWriters
    /\ muPc[p] = "unlock"
    /\ muW' = "none"
    /\ muPc' = [muPc EXCEPT ![p] = "idle"]
    /\ UNCHANGED << muR, muCell, muVal, muGot >>
    /\ UNCHANGED notMu

\* batteryMetrics is entered, by Start's publish step or by a caller of
\* BatteryMetrics().
MuBeginRead(p) ==
    /\ p \in MuReaders
    /\ muPc[p] = "idle"
    /\ p = "pub" => \A w \in MuWriters : muPc[w] = "idle"
    /\ muPc' = [muPc EXCEPT ![p] = "rlock"]
    /\ UNCHANGED << muW, muR, muCell, muVal, muGot >>
    /\ UNCHANGED notMu

\* Variant of the read lock that does not wait for the writer.
MuRLockNoWait(p) ==
    /\ p \in MuReaders
    /\ muPc[p] = "rlock"
    /\ muR' = muR \cup {p}
    /\ muPc' = [muPc EXCEPT ![p] = "read"]
    /\ UNCHANGED << muW, muCell, muVal, muGot >>
    /\ UNCHANGED notMu

\* 'b.mut.RLock()'.
MuRLock(p) ==
    /\ p \in MuReaders
    /\ muPc[p] = "rlock"
    /\ muW = "none"
    /\ muR' = muR \cup {p}
    /\ muPc' = [muPc EXCEPT ![p] = "read"]
    /\ UNCHANGED << muW, muCell, muVal, muGot >>
    /\ UNCHANGED notMu

\* 'm := b.metrics'.
MuRead(p) ==
    /\ p \in MuReaders
    /\ muPc[p] = "read"
    /\ muGot' = [muGot EXCEPT ![p] = muCell]
    /\ muPc' = [muPc EXCEPT ![p] = "runlock"]
    /\ UNCHANGED << muW, muR, muCell, muVal >>
    /\ UNCHANGED notMu

\* 'b.mut.RUnlock()' and the return of m.
MuRUnlock(p) ==
    /\ p \in MuReaders
    /\ muPc[p] = "runlock"
    /\ muR' = muR \ {p}
    /\ muPc' = [muPc EXCEPT ![p] = "idle"]
    /\ UNCHANGED << muW, muCell, muVal, muGot >>
    /\ UNCHANGED notMu

MuNext ==
    \/ \E p \in MuWriters, v \in 1..MaxVal : MuBeginWrite(p, v)
    \/ \E p \in MuWriters : MuLock(p)
    \/ \E p \in MuWriters : MuWrite(p)
    \/ \E p \in MuWriters : MuUnlock(p)
    \/ \E p \in MuReaders : MuBeginRead(p)
    \/ \E p \in MuReaders : MuRLock(p)
    \/ \E p \in MuReaders : MuRead(p)
    \/ \E p \in MuReaders : MuRUnlock(p)

MuSpec == Init /\ [][MuNext]_vars

(* ------------------ the reply-channel profiler variant ----------------- *)

\* BatteryProfiler.refreshMetrics: the new value of b.metrics when the
\* device reads gave m, or failed.
bpRefreshMetrics(cur, m, err) == IF err THEN cur ELSE m

\* What refreshMetrics leaves behind when it returns, its device reads
\* having failed or not, and the non-blocking send of b.metrics on c.
BpIterate(err) ==
    /\ bpFetches' = bpFetches + 1
    /\ bpMetrics' = bpRefreshMetrics(bpMetrics, bpFetches + 1, err)
    /\ bpOut' = Publish(bpOut, bpMetrics')
    /\ bpLastPub' = IF bpOut' # bpOut THEN bpMetrics' ELSE bpLastPub

\* Start up to its loop: watchConnect and the ticker.
BpStart ==
    /\ bpPc = "init"
    /\ bpPc' = "select"
    /\ bpTickerOn' = TRUE
    /\ UNCHANGED << bpPing, bpStopped, bpTickC, bpMetrics, bpOut, bpCaller,
                    bpResp, bpGot, bpCb, bpFetches, bpLastPub >>
    /\ UNCHANGED bpEarly
    /\ UNCHANGED notBp

\* BatteryProfiler.Stop.
BpStop ==
    /\ ~bpStopped
    /\ bpStopped' = TRUE
    /\ UNCHANGED << bpPc, bpPing, bpTickerOn, bpTickC, bpMetrics, bpOut,
                    bpCaller, bpResp, bpGot, bpCb, bpFetches, bpLastPub >>
    /\ UNCHANGED bpEarly
    /\ UNCHANGED notBp

\* The ticker fires.
BpTimer ==
    /\ bpTickerOn
    /\ bpTickC < CapTick
    /\ bpTickC' = bpTickC + 1
    /\ UNCHANGED << bpPc, bpPing, bpStopped, bpTickerOn, bpMetrics, bpOut,
                    bpCaller, bpResp, bpGot, bpCb, bpFetches, bpLastPub >>
    /\ UNCHANGED bpEarly
    /\ UNCHANGED notBp

\* A caller enters Metrics(): it makes resp and blocks in 'b.ping <- resp'.
BpCallMetrics(c) ==
    /\ bpCaller[c] = "idle"
    /\ bpCaller' = [bpCaller EXCEPT ![c] = "ping"]
    /\ bpEarly' = IF bpPc = "init" THEN bpEarly \cup {c} ELSE bpEarly
    /\ UNCHANGED << bpPc, bpPing, bpStopped, bpTickerOn, bpTickC, bpMetrics,
                    bpOut, bpResp, bpGot, bpCb, bpFetches, bpLastPub >>
    /\ UNCHANGED notBp

\* The device reports a state change: the callback registered by
\* watchConnect runs and blocks in 'b.connect <- struct{}{}'.
BpConnectEvent ==
    /\ bpPc # "init"
    /\ bpCb = "idle"
    /\ bpCb' = "send"
    /\ UNCHANGED << bpPc, bpPing, bpStopped, bpTickerOn, bpTickC, bpMetrics,
                    bpOut, bpCaller, bpResp, bpGot, bpFetches, bpLastPub >>
    /\ UNCHANGED bpEarly
    /\ UNCHANGED notBp

\* 'case <-b.stop: return', with the deferred tick.Stop().
BpSelectStop ==
    /\ bpPc = "select"
    /\ bpStopped
    /\ bpPc' = "returned"
    /\ bpTickerOn' = FALSE
    /\ UNCHANGED << bpPing, bpStopped, bpTickC, bpMetrics, bpOut, bpCaller,
                    bpResp, bpGot, bpCb, bpFetches, bpLastPub >>
    /\ UNCHANGED bpEarly
    /\ UNCHANGED notBp

\* Variant of the ping case that answers from b.metrics without calling
\* refreshMetrics.
BpSelectPingNoFetch(c) ==
    /\ bpPc = "select"
    /\ bpCaller[c] = "ping"
    /\ bpOut' = Publish(bpOut, bpMetrics)
    /\ bpLastPub' = IF bpOut' # bpOut THEN bpMetrics ELSE bpLastPub
    /\ bpCaller' = [bpCaller EXCEPT ![c] = "reply"]
    /\ bpResp' = [bpResp EXCEPT ![c] = bpMetrics]
    /\ UNCHANGED << bpPc, bpPing, bpStopped, bpTickerOn, bpTickC, bpMetrics,
                    bpGot, bpCb, bpFetches >>
    /\ UNCHANGED bpEarly
    /\ UNCHANGED notBp

\* Variant of the ping case that is served whether or not Start's loop is
\* at its select.
BpSelectPingAnytime(c) ==
    /\ bpPc # "refresh"
    /\ bpCaller[c] = "ping"
    /\ bpFetches < MaxFetch
    /\ bpPc' = "refresh"
    /\ bpPing' = c
    /\ bpCaller' = [bpCaller EXCEPT ![c] = "wait"]
    /\ UNCHANGED << bpStopped, bpTickerOn, bpTickC, bpMetrics, bpOut, bpResp,
                    bpGot, bpCb, bpFetches, bpLastPub >>
    /\ UNCHANGED bpEarly
    /\ UNCHANGED notBp

\* 'case ping = <-b.ping': the caller goes on to '<-resp', Start to
\* refreshMetrics.
BpSelectPing(c) ==
    /\ bpPc = "select"
    /\ bpCaller[c] = "ping"
    /\ bpFetches < MaxFetch
    /\ bpPc' = "refresh"
    /\ bpPing' = c
    /\ bpCaller' = [bpCaller EXCEPT ![c] = "wait"]
    /\ UNCHANGED << bpStopped, bpTickerOn, bpTickC, bpMetrics, bpOut, bpResp,
                    bpGot, bpCb, bpFetches, bpLastPub >>
    /\ UNCHANGED bpEarly
    /\ UNCHANGED notBp

\* 'case <-b.connect': the callback is released, Start goes on to
\* refreshMetrics.
BpSelectConnect ==
    /\ bpPc = "select"
    /\ bpCb = "send"
    /\ bpFetches < MaxFetch
    /\ bpCb' = "idle"
    /\ bpPc' = "refresh"
    /\ UNCHANGED << bpPing, bpStopped, bpTickerOn, bpTickC, bpMetrics, bpOut,
                    bpCaller, bpResp, bpGot, bpFetches, bpLastPub >>
    /\ UNCHANGED bpEarly
    /\ UNCHANGED notBp

\* 'case <-tick.C': Start goes on to refreshMetrics.
BpSelectTick ==
    /\ bpPc = "select"
    /\ bpTickC > 0
    /\ bpFetches < MaxFetch
    /\ bpTickC' = bpTickC - 1
    /\ bpPc' = "refresh"
    /\ UNCHANGED << bpPing, bpStopped, bpTickerOn, bpMetrics, bpOut,
                    bpCaller, bpResp, bpGot, bpCb, bpFetches, bpLastPub >>
    /\ UNCHANGED bpEarly
    /\ UNCHANGED notBp

\* refreshMetrics returns, and the rest of the iteration: 'm := b.metrics',
\* the non-blocking 'c <- m', and 'ping <- m; ping = nil' when a reply
\* channel was received (resp has room for the one value).
BpRefresh(err) ==
    /\ bpPc = "refresh"
    /\ BpIterate(err)
    /\ IF bpPing # Nil
       THEN /\ bpCaller' = [bpCaller EXCEPT ![bpPing] = "reply"]
            /\ bpResp' = [bpResp EXCEPT ![bpPing] = bpMetrics']
       ELSE UNCHANGED << bpCaller, bpResp >>
    /\ bpPing' = Nil
    /\ bpPc' = "select"
    /\ UNCHANGED << bpStopped, bpTickerOn, bpTickC, bpGot, bpCb >>
    /\ UNCHANGED bpEarly
    /\ UNCHANGED notBp

\* 'm := <-resp; return m' in Metrics().
BpReturn(c) ==
    /\ bpCaller[c] = "reply"
    /\ bpCaller' = [bpCaller EXCEPT ![c] = "done"]
    /\ bpGot' = [bpGot EXCEPT ![c] = bpResp[c]]
    /\ UNCHANGED << bpPc, bpPing, bpStopped, bpTickerOn, bpTickC, bpMetrics,
                    bpOut, bpResp, bpCb, bpFetches, bpLastPub >>
    /\ UNCHANGED bpEarly
    /\ UNCHANGED notBp

\* The consumer receives from the output channel.
BpConsume ==
    /\ Len(bpOut) > 0
    /\ bpOut' = Tail(bpOut)
    /\ UNCHANGED << bpPc, bpPing, bpStopped, bpTickerOn, bpTickC, bpMetrics,
                    bpCaller, bpResp, bpGot, bpCb, bpFetches, bpLastPub >>
    /\ UNCHANGED bpEarly
    /\ UNCHANGED notBp

BpNext ==
    \/ BpStart
    \/ BpStop
    \/ BpTimer
    \/ \E c \in BpCallers : BpCallMetrics(c)
    \/ BpConnectEvent
    \/ BpSelectStop
    \/ \E c \in BpCallers : BpSelectPing(c)
    \/ BpSelectConnect
    \/ BpSelectTick
    \/ \E err \in BOOLEAN : BpRefresh(err)
    \/ \E c \in BpCallers : BpReturn(c)
    \/ BpConsume

BpSpec == Init /\ [][BpNext]_vars

(* ---------------------------- CPU pipeline ----------------------------- *)

\* A Time value.
MkTime(n, v) == [name |-> n, InMode |-> v]

\* The counter vectors, the lists of CPU names and the samples that
\* ReadTime may return in a run.
CpuVecs == { << 100, 50, 0, 200 >>, << 110, 52, 0, 210 >> }
CpuShapes == { << "cpu" >>, << "cpu", "cpu0" >>, << "cpu", "cpu1" >> }
CpuSamples ==
    UNION { { [i \in 1..Len(sh) |-> MkTime(sh[i], f[i])] :
                f \in [1..Len(sh) -> CpuVecs] } : sh \in CpuShapes }

\* Variant of Time.Sub that subtracts t from t2.
TimeSubReversed(t, t2) ==
    [name |-> t.name,
     InMode |-> [k \in 1..Len(t.InMode) |->
                    IF k <= Len(t2.InMode) THEN t2.InMode[k] - t.InMode[k]
                    ELSE t.InMode[k]]]

\* Time.Sub: a copy of t with the counters of t2 subtracted, index by
\* index over t2's counters.
TimeSub(t, t2) ==
    [name |-> t.name,
     InMode |-> [k \in 1..Len(t.InMode) |->
                    IF k <= Len(t2.InMode) THEN t.InMode[k] - t2.InMode[k]
                    ELSE t.InMode[k]]]

\* Time.Sub indexes out of range when t2 has more counters than t.
TimeSubPanics(t, t2) == Len(t2.InMode) > Len(t.InMode)

\* Delta's 'for i, t := range told { tdelta[i] = tdelta[i].Sub(t) }' on
\* the copy tdelta of tnew indexes out of range when told is longer.
DeltaPanics(told, tnew) ==
    \/ Len(told) > Len(tnew)
    \/ \E i \in 1..Len(told) : TimeSubPanics(tnew[i], told[i])

\* tdelta after that loop: entry i of tnew minus entry i of told for the
\* indices of told, the other entries of tnew as they are.
DeltaOf(told, tnew) ==
    [i \in 1..Len(tnew) |->
        IF i <= Len(told) THEN TimeSub(tnew[i], told[i]) ELSE tnew[i]]

\* The process has not died of a panic.
CpuAlive == dlPc # "panic" /\ appPc # "panic"

\* TimeToCPU's loop body: the slice of the CPUs of the Times; a CPU is
\* identified with its Name().
TimeToCPU(times) == [i \in 1..Len(times) |-> times[i].name]

\* Variant of Poll whose loop starts with c set to p.C, so that the
\* sample read at construction is offered.
CpuInitArmed ==
    /\ ProfNew /\ RotOff /\ MuIdle /\ BpNew /\ RlOff
    /\ FcOff /\ FrOff /\ PgOff /\ RaOff /\ DsOff
    /\ plPc = "loop"
    /\ plStopped = FALSE
    /\ plTickerOn = TRUE
    /\ plTickC = 0
    /\ plTimes \in CpuSamples
    /\ plArmed = TRUE
    /\ plC = << >>
    /\ plCClosed = FALSE
    /\ plNPoll = 0
    /\ plNOk = 0
    /\ dlPc = "run"
    /\ dlOld = << >>
    /\ dlDelta = << >>
    /\ dlArmed = FALSE
    /\ dlOutClosed = FALSE
    /\ dlPrev = << >>
    /\ dlLastGot = << >>
    /\ dlNGot = 0
    /\ dlNRecv = 0


\* Poll has returned a Poller (ReadTime gave timesInit, the ticker and the
\* loop run) and Delta(p.C) has started its goroutine.
CpuInit ==
    /\ ProfNew /\ RotOff /\ MuIdle /\ BpNew /\ RlOff
    /\ FcOff /\ FrOff /\ PgOff /\ RaOff /\ DsOff
    /\ plPc = "loop"
    /\ plStopped = FALSE
    /\ plTickerOn = TRUE
    /\ plTickC = 0
    /\ plTimes \in CpuSamples
    /\ plArmed = FALSE
    /\ plC = << >>
    /\ plCClosed = FALSE
    /\ plNPoll = 0
    /\ plNOk = 0
    /\ dlPc = "run"
    /\ dlOld = << >>
    /\ dlDelta = << >>
    /\ dlArmed = FALSE
    /\ dlOutClosed = FALSE
    /\ dlPrev = << >>
    /\ dlLastGot = << >>
    /\ dlNGot = 0
    /\ dlNRecv = 0

dlAll == << dlPc, dlOld, dlDelta, dlArmed, dlOutClosed, dlPrev, dlLastGot,
            dlNGot, dlNRecv >>

\* The Poller's ticker fires.
PlTimer ==
    /\ CpuAlive
    /\ plTickerOn
    /\ plTickC < CapTick
    /\ plTickC' = plTickC + 1
    /\ UNCHANGED << plPc, plStopped, plTickerOn, plTimes, plArmed, plC,
                    plCClosed, plNPoll, plNOk, dlAll >>
    /\ UNCHANGED notCpu

\* Poller.Stop: 'p.tick.Stop(); close(p.stop)'.  Stopping the ticker does
\* not drain its channel.
PlStop ==
    /\ CpuAlive
    /\ plPc # "off"
    /\ ~plStopped
    /\ plTickerOn' = FALSE
    /\ plStopped' = TRUE
    /\ UNCHANGED << plPc, plTickC, plTimes, plArmed, plC, plCClosed,
                    plNPoll, plNOk, dlAll >>
    /\ UNCHANGED notCpu

\* 'case <-p.stop: return', with the deferred close(p.C).
PlSelectStop ==
    /\ CpuAlive
    /\ plPc = "loop"
    /\ plStopped
    /\ plPc' = "returned"
    /\ plCClosed' = TRUE
    /\ UNCHANGED << plStopped, plTickerOn, plTickC, plTimes, plArmed, plC,
                    plNPoll, plNOk, dlAll >>
    /\ UNCHANGED notCpu

\* 'case <-p.tick.C: if p.poll() { c = p.C }', where ReadTime returns the
\* sample s or an error.
PlSelectTick(s, err) ==
    /\ CpuAlive
    /\ plPc = "loop"
    /\ plTickC > 0
    /\ plNPoll < MaxPoll
    /\ plTickC' = plTickC - 1
    /\ plNPoll' = plNPoll + 1
    /\ plNOk' = IF err THEN plNOk ELSE plNOk + 1
    /\ plTimes' = IF err THEN plTimes ELSE s
    /\ plArmed' = IF err THEN plArmed ELSE TRUE
    /\ UNCHANGED << plPc, plStopped, plTickerOn, plC, plCClosed, dlAll >>
    /\ UNCHANGED notCpu

\* Variant of the send case that leaves c set, so that the same sample is
\* offered again.
PlSelectSendKeep ==
    /\ CpuAlive
    /\ plPc = "loop"
    /\ plArmed
    /\ Len(plC) < CapPollC
    /\ plC' = Append(plC, plTimes)
    /\ UNCHANGED << plPc, plStopped, plTickerOn, plTickC, plTimes, plArmed,
                    plCClosed, plNPoll, plNOk, dlAll >>
    /\ UNCHANGED notCpu


\* 'case c <- p.times: c = nil'.
PlSelectSend ==
    /\ CpuAlive
    /\ plPc = "loop"
    /\ plArmed
    /\ Len(plC) < CapPollC
    /\ plC' = Append(plC, plTimes)
    /\ plArmed' = FALSE
    /\ UNCHANGED << plPc, plStopped, plTickerOn, plTickC, plTimes,
                    plCClosed, plNPoll, plNOk, dlAll >>
    /\ UNCHANGED notCpu

\* 'case tnew, ok := <-c' with ok true.  A panic in the loop runs the
\* deferred close(d) and ends the process.
DlRecv ==
    /\ CpuAlive
    /\ dlPc = "run"
    /\ Len(plC) > 0
    /\ plC' = Tail(plC)
    /\ dlNRecv' = dlNRecv + 1
    /\ IF dlOld # << >> /\ DeltaPanics(dlOld, Head(plC))
       THEN /\ dlPc' = "panic"
            /\ dlOutClosed' = TRUE
            /\ UNCHANGED << dlOld, dlDelta, dlArmed, dlPrev >>
       ELSE /\ dlDelta' = IF dlOld # << >> THEN DeltaOf(dlOld, Head(plC))
                          ELSE Head(plC)
            /\ dlArmed' = (dlArmed \/ dlOld # << >>)
            /\ dlPrev' = dlOld
            /\ dlOld' = Head(plC)
            /\ UNCHANGED << dlPc, dlOutClosed >>
    /\ UNCHANGED << plPc, plStopped, plTickerOn, plTickC, plTimes, plArmed,
                    plCClosed, plNPoll, plNOk, dlLastGot, dlNGot >>
    /\ UNCHANGED notCpu

\* Variant of the closed case that first waits for the pending delta to be
\* delivered.
DlRecvClosedAfterDelivery ==
    /\ CpuAlive
    /\ dlPc = "run"
    /\ plC = << >>
    /\ plCClosed
    /\ ~dlArmed
    /\ dlPc' = "returned"
    /\ dlOutClosed' = TRUE
    /\ UNCHANGED << plPc, plStopped, plTickerOn, plTickC, plTimes, plArmed,
                    plC, plCClosed, plNPoll, plNOk, dlOld, dlDelta, dlArmed,
                    dlPrev, dlLastGot, dlNGot, dlNRecv >>
    /\ UNCHANGED notCpu

\* 'case tnew, ok := <-c' with ok false: return, and the deferred close(d).
DlRecvClosed ==
    /\ CpuAlive
    /\ dlPc = "run"
    /\ plC = << >>
    /\ plCClosed
    /\ dlPc' = "returned"
    /\ dlOutClosed' = TRUE
    /\ UNCHANGED << plPc, plStopped, plTickerOn, plTickC, plTimes, plArmed,
                    plC, plCClosed, plNPoll, plNOk, dlOld, dlDelta, dlArmed,
                    dlPrev, dlLastGot, dlNGot, dlNRecv >>
    /\ UNCHANGED notCpu

\* Variant of Delta's send case that leaves _d set, so that the same delta
\* is offered again.
DlSendKeep ==
    /\ CpuAlive
    /\ dlPc = "run"
    /\ dlArmed
    /\ tcPc \in { "off", "recv" }
    /\ dlLastGot' = dlDelta
    /\ dlNGot' = dlNGot + 1
    /\ IF tcPc = "recv"
       THEN tcPc' = "send" /\ tcCpus' = TimeToCPU(dlDelta)
       ELSE UNCHANGED << tcPc, tcCpus >>
    /\ UNCHANGED << plPc, plStopped, plTickerOn, plTickC, plTimes, plArmed,
                    plC, plCClosed, plNPoll, plNOk, dlPc, dlOld, dlDelta,
                    dlArmed, dlOutClosed, dlPrev, dlNRecv >>
    /\ UNCHANGED << tcCClosed, ffPc, ffIgnore, ffCpus, ffCClosed, appPc,
                    appLast, appDone >>
    /\ UNCHANGED notPipe


\* 'case _d <- tdelta: _d = nil', a rendezvous with the receive of d's
\* consumer: TimeToCPU's 'range times' when that stage is part of the run.
DlSend ==
    /\ CpuAlive
    /\ dlPc = "run"
    /\ dlArmed
    /\ tcPc \in { "off", "recv" }
    /\ dlLastGot' = dlDelta
    /\ dlNGot' = dlNGot + 1
    /\ dlArmed' = FALSE
    /\ IF tcPc = "recv"
       THEN tcPc' = "send" /\ tcCpus' = TimeToCPU(dlDelta)
       ELSE UNCHANGED << tcPc, tcCpus >>
    /\ UNCHANGED << plPc, plStopped, plTickerOn, plTickC, plTimes, plArmed,
                    plC, plCClosed, plNPoll, plNOk, dlPc, dlOld, dlDelta,
                    dlOutClosed, dlPrev, dlNRecv >>
    /\ UNCHANGED << tcCClosed, ffPc, ffIgnore, ffCpus, ffCClosed, appPc,
                    appLast, appDone >>
    /\ UNCHANGED notPipe

CpuNext ==
    \/ PlTimer
    \/ PlStop
    \/ PlSelectStop
    \/ \E s \in CpuSamples, err \in BOOLEAN : PlSelectTick(s, err)
    \/ PlSelectSend
    \/ DlRecv
    \/ DlRecvClosed
    \/ DlSend

CpuSpec == CpuInit /\ [][CpuNext]_vars

\* A select case that stays ready is eventually taken.
CpuFairSpec == CpuSpec /\ WF_vars(DlRecv) /\ WF_vars(DlRecvClosed)

(* ------------------------------ FilterCPU ------------------------------ *)

\* A CPU is identified with its Name().
FcNames == { "cpu", "cpu0", "cpu1" }

\* The sequences over S of length at most n.
SeqUpTo(S, n) == UNION { [1..k -> S] : k \in 0..n }

\* The inner loop 'for _, name := range ignore' for one CPU t: t is
\* appended once for every name of the list that differs from t.Name()
\* (the 'continue' continues the inner loop).
FcInner(t, ignore) ==
    [j \in 1..Cardinality({ k \in 1..Len(ignore) : ignore[k] # t }) |-> t]

\* The outer loop 'for _, t := range cpus'.
RECURSIVE FcOuter(_, _)
FcOuter(cpus, ignore) ==
    IF cpus = << >> THEN << >>
    ELSE FcInner(Head(cpus), ignore) \o FcOuter(Tail(cpus), ignore)

\* What a consumer of FilterCPU's result receives for the slice cpus: with
\* an empty ignore list FilterCPU returns its input channel.
FilterCPU(cpus, ignore) ==
    IF Len(ignore) = 0 THEN cpus ELSE FcOuter(cpus, ignore)

\* FilterCPU has been called with some ignore list: with an empty list it
\* has returned its input channel, otherwise its goroutine is at 'range'.
FcInit ==
    /\ ProfNew /\ RotOff /\ MuIdle /\ BpNew /\ RlOff /\ DsOff
    /\ CpuOff /\ FrOff /\ PgOff /\ RaOff
    /\ fcIgnore \in SeqUpTo(FcNames, MaxIgnore)
    /\ fcPc = IF Len(fcIgnore) = 0 THEN "none" ELSE "recv"
    /\ fcIn = << >>
    /\ fcCpus = << >>
    /\ fcClosed = FALSE
    /\ fcOut = << >>

\* Empty ignore list: the consumer receives from the input channel itself.
FcPass(cpus) ==
    /\ fcPc = "none"
    /\ ~fcClosed
    /\ fcIn' = cpus
    /\ fcOut' = FilterCPU(cpus, fcIgnore)
    /\ UNCHANGED << fcPc, fcIgnore, fcCpus, fcClosed >>
    /\ UNCHANGED notFc

\* 'for cpus := range cpus' receives a slice and the loops filter it.
FcRecv(cpus) ==
    /\ fcPc = "recv"
    /\ ~fcClosed
    /\ fcPc' = "send"
    /\ fcIn' = cpus
    /\ fcCpus' = FilterCPU(cpus, fcIgnore)
    /\ UNCHANGED << fcIgnore, fcClosed, fcOut >>
    /\ UNCHANGED notFc

\* 'c <- cpus': the consumer takes the filtered slice from the unbuffered c.
FcSend ==
    /\ fcPc = "send"
    /\ fcPc' = "recv"
    /\ fcOut' = fcCpus
    /\ UNCHANGED << fcIgnore, fcIn, fcCpus, fcClosed >>
    /\ UNCHANGED notFc

\* The producer closes the input channel.
FcClose ==
    /\ fcPc \in { "none", "recv", "send" }
    /\ ~fcClosed
    /\ fcClosed' = TRUE
    /\ UNCHANGED << fcPc, fcIgnore, fcIn, fcCpus, fcOut >>
    /\ UNCHANGED notFc

\* 'range cpus' ends on the closed input channel; the deferred close(c).
FcClosed ==
    /\ fcPc = "recv"
    /\ fcClosed
    /\ fcPc' = "returned"
    /\ UNCHANGED << fcIgnore, fcIn, fcCpus, fcClosed, fcOut >>
    /\ UNCHANGED notFc

FcNext ==
    \/ \E cpus \in SeqUpTo(FcNames, MaxCpus) : FcPass(cpus)
    \/ \E cpus \in SeqUpTo(FcNames, MaxCpus) : FcRecv(cpus)
    \/ FcSend
    \/ FcClose
    \/ FcClosed

FcSpec == FcInit /\ [][FcNext]_vars

(* ------------------- TimeToCPU, FilterCPU and RunApp ------------------- *)

\* The samples and the ignore lists of a run of the whole pipeline.
PipeSamples ==
    { s \in CpuSamples :
        /\ \A i \in 1..Len(s) : s[i].InMode = << 100, 50, 0, 200 >>
        /\ Len(s) = 2 => s[2].name = "cpu0" }
PipeIgnores == { << >>, << "cpu" >>, << "cpu0" >> }

\* main of the CPU monitor has built the pipeline Poll, Delta, TimeToCPU,
\* FilterCPU (a stage of its own only with a non-empty ignore list) and
\* has started RunApp.
PipeInit ==
    /\ ProfNew /\ RotOff /\ MuIdle /\ BpNew /\ RlOff
    /\ FcOff /\ FrOff /\ PgOff /\ RaOff
    /\ plPc = "loop"
    /\ plStopped = FALSE
    /\ plTickerOn = TRUE
    /\ plTickC = 0
    /\ plTimes \in PipeSamples
    /\ plArmed = FALSE
    /\ plC = << >>
    /\ plCClosed = FALSE
    /\ plNPoll = 0
    /\ plNOk = 0
    /\ dlPc = "run"
    /\ dlOld = << >>
    /\ dlDelta = << >>
    /\ dlArmed = FALSE
    /\ dlOutClosed = FALSE
    /\ dlPrev = << >>
    /\ dlLastGot = << >>
    /\ dlNGot = 0
    /\ dlNRecv = 0
    /\ tcPc = "recv"
    /\ tcCpus = << >>
    /\ tcCClosed = FALSE
    /\ ffIgnore \in PipeIgnores
    /\ ffPc = IF Len(ffIgnore) = 0 THEN "none" ELSE "recv"
    /\ ffCpus = << >>
    /\ ffCClosed = FALSE
    /\ appPc = "recv"
    /\ appLast = << >>
    /\ appDone = FALSE

\* One iteration of RunApp's loop for the slice cpus: app.Draw divides the
\* width by len(cpus), so an empty slice is a division by zero; the panic
\* runs the deferred close(app.done) and ends the process.
AppDraw(cpus) ==
    IF Len(cpus) = 0
    THEN appPc' = "panic" /\ appDone' = TRUE /\ UNCHANGED appLast
    ELSE appLast' = cpus /\ UNCHANGED << appPc, appDone >>

\* TimeToCPU's 'c <- cpus', a rendezvous with the receive of FilterCPU's
\* goroutine or, without one, of RunApp.
TcSend ==
    /\ CpuAlive
    /\ tcPc = "send"
    /\ tcPc' = "recv"
    /\ IF ffPc = "none"
       THEN /\ appPc = "recv"
            /\ AppDraw(tcCpus)
            /\ UNCHANGED << ffPc, ffCpus >>
       ELSE /\ ffPc = "recv"
            /\ ffPc' = "send"
            /\ ffCpus' = FilterCPU(tcCpus, ffIgnore)
            /\ UNCHANGED << appPc, appLast, appDone >>
    /\ UNCHANGED << tcCpus, tcCClosed, ffIgnore, ffCClosed >>
    /\ UNCHANGED << cpuVars, notPipe >>

\* TimeToCPU's 'range times' ends on the closed channel of Delta; the
\* deferred close(c).
TcClosed ==
    /\ CpuAlive
    /\ tcPc = "recv"
    /\ dlOutClosed
    /\ tcPc' = "returned"
    /\ tcCClosed' = TRUE
    /\ UNCHANGED << tcCpus, ffPc, ffIgnore, ffCpus, ffCClosed, appPc,
                    appLast, appDone >>
    /\ UNCHANGED << cpuVars, notPipe >>

\* FilterCPU's 'c <- cpus', a rendezvous with RunApp's receive.
FfSend ==
    /\ CpuAlive
    /\ ffPc = "send"
    /\ appPc = "recv"
    /\ ffPc' = "recv"
    /\ AppDraw(ffCpus)
    /\ UNCHANGED << tcPc, tcCpus, tcCClosed, ffIgnore, ffCpus, ffCClosed >>
    /\ UNCHANGED << cpuVars, notPipe >>

\* FilterCPU's 'range cpus' ends on the closed channel of TimeToCPU; the
\* deferred close(c).
FfClosed ==
    /\ CpuAlive
    /\ ffPc = "recv"
    /\ tcCClosed
    /\ ffPc' = "returned"
    /\ ffCClosed' = TRUE
    /\ UNCHANGED << tcPc, tcCpus, tcCClosed, ffIgnore, ffCpus, appPc,
                    appLast, appDone >>
    /\ UNCHANGED << cpuVars, notPipe >>

\* RunApp's 'case cpus, ok = <-delta' with ok false: return, and the
\* deferred close(app.done).
AppClosed ==
    /\ CpuAlive
    /\ appPc = "recv"
    /\ IF ffPc = "none" THEN tcCClosed ELSE ffCClosed
    /\ appPc' = "returned"
    /\ appDone' = TRUE
    /\ UNCHANGED << tcPc, tcCpus, tcCClosed, ffPc, ffIgnore, ffCpus,
                    ffCClosed, appLast >>
    /\ UNCHANGED << cpuVars, notPipe >>

PipeNext ==
    \/ PlTimer
    \/ PlStop
    \/ PlSelectStop
    \/ \E s \in PipeSamples, err \in BOOLEAN : PlSelectTick(s, err)
    \/ PlSelectSend
    \/ DlRecv
    \/ DlRecvClosed
    \/ DlSend
    \/ TcSend
    \/ TcClosed
    \/ FfSend
    \/ FfClosed
    \/ AppClosed

PipeSpec == PipeInit /\ [][PipeNext]_vars

\* A select case that stays ready is eventually taken, and a goroutine
\* whose channel operation can proceed performs it.
PipeFairSpec ==
    /\ PipeSpec
    /\ WF_vars(PlSelectStop)
    /\ WF_vars(DlRecv)
    /\ WF_vars(DlRecvClosed)
    /\ WF_vars(DlSend)
    /\ WF_vars(TcSend)
    /\ WF_vars(TcClosed)
    /\ WF_vars(FfSend)
    /\ WF_vars(FfClosed)
    /\ WF_vars(AppClosed)

(* --------------------------- Stop called twice -------------------------- *)

\* The process has died of the panic of a close of a closed channel.
Panicked == pc = "panic" \/ plPc = "panic"

\* Variant of a further call of Profiler.Stop that finds the channel
\* closed and does nothing.
StopAgainIdempotent ==
    /\ stopped
    /\ ~Panicked
    /\ UNCHANGED vars

\* Profiler.Stop called again: close(b.stop) on the closed channel panics.
StopAgain ==
    /\ stopped
    /\ ~Panicked
    /\ pc' = "panic"
    /\ UNCHANGED << stopped, envVars, refreshing, refreshed, tasks, metrics,
                    out, obsVars >>
    /\ UNCHANGED notProf

\* Poller.Stop called again: p.tick.Stop() is harmless, close(p.stop) on
\* the closed channel panics.
PlStopAgain ==
    /\ CpuAlive
    /\ ~Panicked
    /\ plPc # "off"
    /\ plStopped
    /\ plPc' = "panic"
    /\ plTickerOn' = FALSE
    /\ UNCHANGED << plStopped, plTickC, plTimes, plArmed, plC, plCClosed,
                    plNPoll, plNOk, dlAll >>
    /\ UNCHANGED notCpu

\* Either program, the battery monitor with its Profiler or the CPU
\* monitor with its Poller, with callers that may call Stop again.
TwiceInit == Init \/ CpuInit

TwiceNext ==
    \/ plPc = "off" /\ ~Panicked /\ Next
    \/ StopAgain
    \/ ~Panicked /\ CpuNext
    \/ PlStopAgain

TwiceSpec == TwiceInit /\ [][TwiceNext]_vars

(* ---------------- CreeperBatteryGuage.BatteryStateChange ---------------- *)

\* Signals put into g.sig in a run, and the room of g.sig.
MaxSignals == 3
MaxSigBuf == 2

\* The object paths of signals: g.dev and another device.
RlDev == "dev"
RlPaths == { RlDev, "other" }

\* BatteryStateChange has returned its stop function, and the goroutine
\* has reconnected and is at its select with relay nil.
RlInit ==
    /\ ProfNew /\ RotOff /\ MuIdle /\ BpNew
    /\ CpuOff /\ FcOff /\ FrOff /\ PgOff /\ RaOff /\ DsOff
    /\ rlPc = "run"
    /\ rlSig = << >>
    /\ rlSigClosed = FALSE
    /\ rlArmed = FALSE
    /\ rlDone = FALSE
    /\ rlOwn = 0
    /\ rlNOwn = 0
    /\ rlNDeliv = 0
    /\ rlNSig = 0

\* The bus delivers a change signal of the device with path p.
RlSignal(p) ==
    /\ rlPc # "off"
    /\ ~rlSigClosed
    /\ rlNSig < MaxSignals
    /\ Len(rlSig) < MaxSigBuf
    /\ rlSig' = Append(rlSig, p)
    /\ rlNSig' = rlNSig + 1
    /\ UNCHANGED << rlPc, rlSigClosed, rlArmed, rlDone, rlOwn, rlNOwn,
                    rlNDeliv >>
    /\ UNCHANGED notRl

\* The bus connection closes g.sig.
RlSigClose ==
    /\ rlPc # "off"
    /\ ~rlSigClosed
    /\ rlSigClosed' = TRUE
    /\ UNCHANGED << rlPc, rlSig, rlArmed, rlDone, rlOwn, rlNOwn, rlNDeliv,
                    rlNSig >>
    /\ UNCHANGED notRl

\* Variant of the signal case that sets relay whatever the path.
RlIntakeAnyPath ==
    /\ rlPc = "run"
    /\ rlSig # << >>
    /\ rlSig' = Tail(rlSig)
    /\ rlArmed' = TRUE
    /\ rlOwn' = IF Head(rlSig) = RlDev THEN rlOwn + 1 ELSE rlOwn
    /\ rlNOwn' = IF Head(rlSig) = RlDev THEN rlNOwn + 1 ELSE rlNOwn
    /\ UNCHANGED << rlPc, rlSigClosed, rlDone, rlNDeliv, rlNSig >>
    /\ UNCHANGED notRl

\* 'case s, ok := <-g.sig' with ok true: a signal of another path is
\* skipped, one of g.dev sets relay to notf.
RlIntake ==
    /\ rlPc = "run"
    /\ rlSig # << >>
    /\ rlSig' = Tail(rlSig)
    /\ IF Head(rlSig) # RlDev
       THEN UNCHANGED << rlArmed, rlOwn, rlNOwn >>
       ELSE /\ rlArmed' = TRUE
            /\ rlOwn' = rlOwn + 1
            /\ rlNOwn' = rlNOwn + 1
    /\ UNCHANGED << rlPc, rlSigClosed, rlDone, rlNDeliv, rlNSig >>
    /\ UNCHANGED notRl

\* 'case s, ok := <-g.sig' with ok false: the goroutine goes on with the
\* channel of a successful reconnect, or returns.
RlIntakeClosed(ok) ==
    /\ rlPc = "run"
    /\ rlSig = << >>
    /\ rlSigClosed
    /\ IF ok
       THEN rlSigClosed' = FALSE /\ UNCHANGED rlPc
       ELSE rlPc' = "exit" /\ UNCHANGED rlSigClosed
    /\ UNCHANGED << rlSig, rlArmed, rlDone, rlOwn, rlNOwn, rlNDeliv,
                    rlNSig >>
    /\ UNCHANGED notRl

\* 'case relay <- struct{}{}: relay = nil', a rendezvous with the
\* coordinator's receive on notf.
RlDeliver ==
    /\ rlPc = "run"
    /\ rlArmed
    /\ rlArmed' = FALSE
    /\ rlNDeliv' = rlNDeliv + 1
    /\ rlOwn' = 0
    /\ UNCHANGED << rlPc, rlSig, rlSigClosed, rlDone, rlNOwn, rlNSig >>
    /\ UNCHANGED notRl

\* The coordinator calls the stop function: close(_done).
RlStop ==
    /\ rlPc # "off"
    /\ ~rlDone
    /\ rlDone' = TRUE
    /\ UNCHANGED << rlPc, rlSig, rlSigClosed, rlArmed, rlOwn, rlNOwn,
                    rlNDeliv, rlNSig >>
    /\ UNCHANGED notRl

\* 'case <-_done: return'.
RlTakeDone ==
    /\ rlPc = "run"
    /\ rlDone
    /\ rlPc' = "exit"
    /\ UNCHANGED << rlSig, rlSigClosed, rlArmed, rlDone, rlOwn, rlNOwn,
                    rlNDeliv, rlNSig >>
    /\ UNCHANGED notRl

RlNext ==
    \/ \E p \in RlPaths : RlSignal(p)
    \/ RlSigClose
    \/ RlIntake
    \/ \E ok \in BOOLEAN : RlIntakeClosed(ok)
    \/ RlDeliver
    \/ RlStop
    \/ RlTakeDone

RlSpec == RlInit /\ [][RlNext]_vars

(* ------------------------------ FracUtil ------------------------------- *)

\* float64 values. A finite non-zero value is sgn * 1.f * 2^exp: mant holds
\* the MantBits bits of the significand 1.f, the leading 1 first. Zeros,
\* infinities and NaN carry a sign and no bits. Exponents stay far inside
\* float64's range for the counters the model uses.
MantBits == 53

Abs(a) == IF a < 0 THEN 0 - a ELSE a
Sign(a) == IF a < 0 THEN 0 - 1 ELSE 1
NaN == [kind |-> "nan", sgn |-> 1, exp |-> 0, mant |-> << >>]
Inf(sgn) == [kind |-> "inf", sgn |-> sgn, exp |-> 0, mant |-> << >>]
Zero(sgn) == [kind |-> "zero", sgn |-> sgn, exp |-> 0, mant |-> << >>]

\* Naturals of any size as bit sequences, most significant bit first.
Zeros(n) == [i \in 1..n |-> 0]
Front(b) == SubSeq(b, 1, Len(b) - 1)
Pad(b, n) == Zeros(n - Len(b)) \o b

\* b without its leading zeros.
Strip(b) ==
    IF \A i \in 1..Len(b) : b[i] = 0 THEN << >>
    ELSE LET first == CHOOSE i \in 1..Len(b) :
                          b[i] = 1 /\ \A j \in 1..(i - 1) : b[j] = 0
         IN  SubSeq(b, first, Len(b))

RECURSIVE NatBits(_)
NatBits(n) == IF n = 0 THEN << >> ELSE NatBits(n \div 2) \o << n % 2 >>

\* a + b + c for bit sequences of one length and a carry c; the sum is one
\* bit longer. The carry into a place comes from the nearest place to its
\* right that generates one, or from c, through places that pass it on.
AddC(a, b, c) ==
    LET n == Len(a)
        pass(i, j) == \A m \in (i + 1)..(j - 1) : a[m] + b[m] = 1
        carry(i) ==
            IF \/ \E j \in (i + 1)..n : a[j] + b[j] = 2 /\ pass(i, j)
               \/ c = 1 /\ pass(i, n + 1)
            THEN 1 ELSE 0
    IN  << carry(0) >> \o [i \in 1..n |-> (a[i] + b[i] + carry(i)) % 2]

AddBits(a, b) == AddC(a, b, 0)

\* a - b for bit sequences of one length with a >= b. A place borrows when
\* the nearest place to its right where a and b differ has the smaller bit
\* in a.
SubBits(a, b) ==
    LET n == Len(a)
        borrow(i) ==
            IF \E j \in (i + 1)..n :
                   a[j] < b[j] /\ \A m \in (i + 1)..(j - 1) : a[m] = b[m]
            THEN 1 ELSE 0
    IN  [i \in 1..n |-> (a[i] - b[i] - borrow(i) + 2) % 2]

\* a >= b for bit sequences of one length.
GeBits(a, b) ==
    \/ a = b
    \/ \E i \in 1..Len(a) :
           a[i] > b[i] /\ \A j \in 1..(i - 1) : a[j] = b[j]

\* The float64 nearest to sgn * (b + d) * 2^k, ties to even, where b is a
\* bit sequence with a leading 1 and d is 0, or some value strictly between
\* 0 and 1 when sticky holds.
RoundBits(b, sticky, sgn, k) ==
    LET e == k + Len(b) - 1
    IN  IF Len(b) <= MantBits
        THEN [kind |-> "num", sgn |-> sgn, exp |-> e,
              mant |-> b \o Zeros(MantBits - Len(b))]
        ELSE LET top == SubSeq(b, 1, MantBits)
                 guard == b[MantBits + 1]
                 rest == sticky \/ \E i \in (MantBits + 2)..Len(b) : b[i] = 1
                 up == guard = 1 /\ (rest \/ top[MantBits] = 1)
                 inc == AddC(top, Zeros(MantBits), 1)
             IN  IF ~up
                 THEN [kind |-> "num", sgn |-> sgn, exp |-> e, mant |-> top]
                 ELSE IF inc[1] = 1
                 THEN [kind |-> "num", sgn |-> sgn, exp |-> e + 1,
                       mant |-> << 1 >> \o Zeros(MantBits - 1)]
                 ELSE [kind |-> "num", sgn |-> sgn, exp |-> e,
                       mant |-> Tail(inc)]

\* The first k bits after the binary point of n / d, for 0 <= n < d, and
\* the remainder left after them.
RECURSIVE DivRem(_, _, _)
DivRem(n, d, k) ==
    IF k = 0 THEN n
    ELSE IF k = 1 THEN (IF 2 * n >= d THEN 2 * n - d ELSE 2 * n)
    ELSE LET r == DivRem(n, d, k \div 2)
         IN  IF r = 0 THEN 0 ELSE DivRem(r, d, k - k \div 2)

RECURSIVE DivBits(_, _, _)
DivBits(n, d, k) ==
    IF k = 0 THEN << >>
    ELSE IF k = 1 THEN << IF 2 * n >= d THEN 1 ELSE 0 >>
    ELSE LET r == DivRem(n, d, k \div 2)
         IN  DivBits(n, d, k \div 2)
                 \o (IF r = 0 THEN Zeros(k - k \div 2)
                     ELSE DivBits(r, d, k - k \div 2))

\* Bits of a quotient computed before it is rounded: enough for the leading
\* zeros of a quotient of two counters, the significand and a guard bit.
QuotBits == MantBits + MantBits

\* float64(a) / float64(b) for integers a and b, which convert exactly.
FloatDiv(a, b) ==
    IF b = 0 THEN (IF a = 0 THEN NaN ELSE Inf(Sign(a)))
    ELSE IF a = 0 THEN Zero(Sign(b))
    ELSE LET n == Abs(a)
             d == Abs(b)
             q == NatBits(n \div d) \o DivBits(n % d, d, QuotBits)
         IN  RoundBits(Strip(q), DivRem(n % d, d, QuotBits) # 0,
                       Sign(a) * Sign(b), 0 - QuotBits)

\* 1 - x in float64: the exact difference of 1 and x, rounded once.
OneMinus(x) ==
    IF x.kind = "nan" THEN NaN
    ELSE IF x.kind = "inf" THEN Inf(0 - x.sgn)
    ELSE IF x.kind = "zero"
    THEN [kind |-> "num", sgn |-> 1, exp |-> 0,
          mant |-> << 1 >> \o Zeros(MantBits - 1)]
    ELSE LET low == x.exp - (MantBits - 1)
             k == IF low < 0 THEN low ELSE 0
             a0 == << 1 >> \o Zeros(0 - k)
             b0 == x.mant \o Zeros(low - k)
             n == IF Len(a0) > Len(b0) THEN Len(a0) ELSE Len(b0)
             a == Pad(a0, n)
             b == Pad(b0, n)
             r == IF x.sgn < 0 THEN AddBits(a, b)
                  ELSE IF GeBits(a, b) THEN SubBits(a, b)
                  ELSE SubBits(b, a)
             sg == IF x.sgn > 0 /\ ~GeBits(a, b) THEN 0 - 1 ELSE 1
         IN  IF Strip(r) = << >> THEN Zero(1)
             ELSE RoundBits(Strip(r), FALSE, sg, k)

\* 'for _, mode := range t.InMode { total += float64(mode) }': the counters
\* and their sums are far below 2^53, so every partial sum is exact.
RECURSIVE FrTotal(_)
FrTotal(v) == IF v = << >> THEN 0 ELSE Head(v) + FrTotal(Tail(v))

\* Time.Frac; the model's sequences are indexed from 1.
Frac(v, mode) == FloatDiv(v[mode + 1], FrTotal(v))

\* Variant of FracUtil that returns the idle share itself.
FracUtilIdleShare(v) == Frac(v, ModeIdle)

\* Time.FracUtil.
FracUtil(v) == OneMinus(Frac(v, ModeIdle))

\* The counts of a mode in the vectors FracUtil is called with.
FrCounts == { 0, 10, 70 }

\* FracUtil is about to be called on some counter vector.
FrInit ==
    /\ ProfNew /\ RotOff /\ MuIdle /\ BpNew /\ RlOff /\ DsOff
    /\ CpuOff /\ FcOff /\ PgOff /\ RaOff
    /\ frPc = "call"
    /\ frT \in [1..(ModeIdle + 1) -> FrCounts]
    /\ frRes = None

\* The call returns.
FrCall ==
    /\ frPc = "call"
    /\ frPc' = "done"
    /\ frRes' = FracUtil(frT)
    /\ UNCHANGED frT
    /\ UNCHANGED notFr

FrNext == FrCall

FrSpec == FrInit /\ [][FrNext]_vars

(* ---------------------------- parseGeometry ---------------------------- *)

\* A string is a sequence of characters.  UDigit stands for one non-ASCII
\* decimal digit (U+0663, ARABIC-INDIC DIGIT THREE).
AsciiDigits == << "0", "1", "2", "3", "4", "5", "6", "7", "8", "9" >>
UDigit == "U+0663"

\* unicode.IsDigit.
IsDigit(c) == (\E i \in 1..Len(AsciiDigits) : AsciiDigits[i] = c) \/ c = UDigit

IsAsciiDigit(c) == \E i \in 1..Len(AsciiDigits) : AsciiDigits[i] = c
DigitVal(c) == (CHOOSE i \in 1..Len(AsciiDigits) : AsciiDigits[i] = c) - 1

\* The nil error, the zero rectangle, and the error values of the parser.
NilErr == "<nil>"
ZR == << 0, 0, 0, 0 >>
ErrEOF == "EOF"
ErrSyntax == "strconv.ParseInt: invalid syntax"
ErrWidth == "geometry: expected width"
ErrDelim == "geometry: expected delimiter 'x'"
ErrHeight == "geometry: expected height"
ErrXOffset == "geometry: expected x offset"
ErrYOffset == "geometry: expected y offset"
ErrEnd == "geometry: expected end of input"

\* image.Rect: the rectangle with the coordinates put in order.
ImageRect(x0, y0, x1, y1) ==
    << IF x0 > x1 THEN x1 ELSE x0, IF y0 > y1 THEN y1 ELSE y0,
       IF x0 > x1 THEN x0 ELSE x1, IF y0 > y1 THEN y0 ELSE y1 >>

\* Items of the lexer.
DimItem(v) == [type |-> "dim", val |-> v, msg |-> ""]
OffItem(v) == [type |-> "off", val |-> v, msg |-> ""]
ErrItem(m) == [type |-> "err", val |-> << >>, msg |-> m]
EOFItem == [type |-> "eof", val |-> << >>, msg |-> ""]

\* lex.AcceptRunFunc(unicode.IsDigit) from position p (the index of the
\* next character): the position after the run.
RECURSIVE AcceptDigits(_, _)
AcceptDigits(s, p) ==
    IF p <= Len(s) /\ IsDigit(s[p]) THEN AcceptDigits(s, p + 1) ELSE p

\* lex.Accept(valid) at position p.
Accepts(s, p, valid) == p <= Len(s) /\ s[p] \in valid

\* _lexOffset at position p: whether it succeeded and the position it left.
LexOffsetAt(s, p) ==
    IF ~Accepts(s, p, { "-", "+" }) THEN [ok |-> FALSE, pos |-> p]
    ELSE IF AcceptDigits(s, p + 1) = p + 1 THEN [ok |-> FALSE, pos |-> p + 1]
    ELSE [ok |-> TRUE, pos |-> AcceptDigits(s, p + 1)]

\* The items that the state lexOffset emits, entered at position p.
LexOffsetItems(s, p) ==
    LET a == LexOffsetAt(s, p)
        b == LexOffsetAt(s, a.pos)
    IN  IF ~a.ok
        THEN IF a.pos # p THEN << ErrItem(ErrXOffset) >>
             ELSE IF p > Len(s) THEN << >>
             ELSE << ErrItem(ErrXOffset) >>
        ELSE << OffItem(SubSeq(s, p, a.pos - 1)) >> \o
             (IF ~b.ok THEN << ErrItem(ErrYOffset) >>
              ELSE << OffItem(SubSeq(s, a.pos, b.pos - 1)) >> \o
                   (IF b.pos <= Len(s) THEN << ErrItem(ErrEnd) >>
                    ELSE << >>))

\* The items that the lexer emits for s, from the state lexGeometry on.
LexGeometryItems(s) ==
    LET p1 == AcceptDigits(s, 1)
        p3 == AcceptDigits(s, p1 + 1)
    IN  IF p1 = 1 THEN << ErrItem(ErrWidth) >>
        ELSE << DimItem(SubSeq(s, 1, p1 - 1)) >> \o
             (IF ~Accepts(s, p1, { "x" }) THEN << ErrItem(ErrDelim) >>
              ELSE IF p3 = p1 + 1 THEN << ErrItem(ErrHeight) >>
              ELSE << DimItem(SubSeq(s, p1 + 1, p3 - 1)) >> \o
                   LexOffsetItems(s, p3))

\* The k-th call of lex.Next(): the k-th item emitted, and the EOF item
\* once the lexer has finished.
LexNext(items, k) == IF k <= Len(items) THEN items[k] ELSE EOFItem

\* The value of a run of ASCII digits.
RECURSIVE DecVal(_)
DecVal(ds) ==
    IF ds = << >> THEN 0 ELSE 10 * DecVal(SubSeq(ds, 1, Len(ds) - 1))
                              + DigitVal(ds[Len(ds)])

\* Variant of strconv.ParseInt that drops the sign.
ParseIntUnsigned(v) ==
    LET signed == Len(v) > 0 /\ v[1] \in { "-", "+" }
        ds == IF signed THEN Tail(v) ELSE v
    IN  IF ds = << >> \/ \E i \in 1..Len(ds) : ~IsAsciiDigit(ds[i])
        THEN [n |-> 0, err |-> ErrSyntax]
        ELSE [n |-> DecVal(ds), err |-> NilErr]

\* strconv.ParseInt(v, 10, 0) for values within the range of int: an
\* optional sign followed by ASCII digits.
ParseInt(v) ==
    LET signed == Len(v) > 0 /\ v[1] \in { "-", "+" }
        ds == IF signed THEN Tail(v) ELSE v
    IN  IF ds = << >> \/ \E i \in 1..Len(ds) : ~IsAsciiDigit(ds[i])
        THEN [n |-> 0, err |-> ErrSyntax]
        ELSE [n |-> IF signed /\ v[1] = "-" THEN 0 - DecVal(ds)
                    ELSE DecVal(ds),
              err |-> NilErr]

\* _parseInt.
ParseIntItem(item) ==
    IF item.type = "err" THEN [n |-> 0, err |-> item.msg]
    ELSE IF item.type = "eof" THEN [n |-> 0, err |-> ErrEOF]
    ELSE ParseInt(item.val)

\* parseGeometry.
parseGeometry(s) ==
    LET items == LexGeometryItems(s)
        xdim == ParseIntItem(LexNext(items, 1))
        ydim == ParseIntItem(LexNext(items, 2))
        xoffset == ParseIntItem(LexNext(items, 3))
        yoffset == ParseIntItem(LexNext(items, 4))
        item == LexNext(items, 5)
    IN  IF xdim.err # NilErr THEN [rect |-> ZR, err |-> xdim.err]
        ELSE IF ydim.err # NilErr THEN [rect |-> ZR, err |-> ydim.err]
        ELSE IF xoffset.err = ErrEOF
             THEN [rect |-> ImageRect(0, 0, xdim.n, ydim.n), err |-> NilErr]
        ELSE IF xoffset.err # NilErr THEN [rect |-> ZR, err |-> xoffset.err]
        ELSE IF yoffset.err # NilErr THEN [rect |-> ZR, err |-> yoffset.err]
        ELSE IF item.type = "err" THEN [rect |-> ZR, err |-> item.msg]
        ELSE IF item.type # "eof" THEN [rect |-> ZR, err |-> ErrEnd]
        ELSE [rect |-> ImageRect(xoffset.n, yoffset.n, xdim.n + xoffset.n,
                                 ydim.n + yoffset.n),
              err |-> NilErr]

\* The strings given to parseGeometry in a run: a width, a delimiter, a
\* height, two offsets and a tail, each present, absent or wrong.
PgDims == { << >>, << "1" >>, << "2" >>, << "1", "0" >>, << "a" >>,
            << UDigit >> }
PgDelims == { << >>, << "x" >>, << "e" >> }
PgOffs == { << >>, << "+", "3" >>, << "-", "3" >>, << "+", "4" >>,
            << "-", "4" >>, << "+" >>, << "x", "1" >> }
PgTails == { << >>, << "+", "1" >> }
PgInputs ==
    { w \o d \o h \o ox \o oy \o t :
        w \in PgDims, d \in PgDelims, h \in PgDims, ox \in PgOffs,
        oy \in PgOffs, t \in PgTails }

\* parseGeometry is about to be called on some string.
PgInit ==
    /\ ProfNew /\ RotOff /\ MuIdle /\ BpNew /\ RlOff /\ DsOff
    /\ CpuOff /\ FcOff /\ FrOff /\ RaOff
    /\ pgPc = "call"
    /\ pgIn \in PgInputs
    /\ pgOut = None

\* The call returns.
PgCall ==
    /\ pgPc = "call"
    /\ pgPc' = "done"
    /\ pgOut' = parseGeometry(pgIn)
    /\ UNCHANGED pgIn
    /\ UNCHANGED notPg

PgNext == PgCall

PgSpec == PgInit /\ [][PgNext]_vars

(* ------------------------------- RunApp -------------------------------- *)

\* The metrics values (Nil: a nil *Metrics) and the formatters, by index
\* into Formats, that arrive on RunApp's channels.
RaMetrics == { Nil } \cup 1..MaxVal
RaFormats == 1..2

\* Variant of the draw condition that does not look at the formatter.
RaShouldDrawAnyFormat(m, f) == m # Nil

\* RunApp draws unless 'm == nil' or 'f == nil'.
RaShouldDraw(m, f) == m # Nil /\ f # Nil

\* main has started RunApp with the two channels it made.
RaInit ==
    /\ ProfNew /\ RotOff /\ MuIdle /\ BpNew /\ RlOff /\ DsOff
    /\ CpuOff /\ FcOff /\ FrOff /\ PgOff
    /\ raPc = "loop"
    /\ raM = Nil
    /\ raF = Nil
    /\ raMC = << >>
    /\ raFC = << >>
    /\ raLastM = None
    /\ raLastF = None
    /\ raDrawn = << >>
    /\ raNDraw = 0
    /\ raNRecv = 0

\* The Profiler publishes a metrics value on the metrics channel.
RaOfferM(v) ==
    /\ raPc = "loop"
    /\ Len(raMC) < CapC
    /\ raMC' = Append(raMC, v)
    /\ UNCHANGED << raPc, raM, raF, raFC, raLastM, raLastF, raDrawn,
                    raNDraw, raNRecv >>
    /\ UNCHANGED notRa

\* The rotator sends a formatter on the formatter channel.
RaOfferF(f) ==
    /\ raPc = "loop"
    /\ Len(raFC) < CapF
    /\ raFC' = Append(raFC, f)
    /\ UNCHANGED << raPc, raM, raF, raMC, raLastM, raLastF, raDrawn,
                    raNDraw, raNRecv >>
    /\ UNCHANGED notRa

\* The rest of an iteration after the select, with m and f as they are
\* now: the two nil checks, app.Draw, which fails or not, and log.Panic.
RaIterate(m, f, drawErr) ==
    /\ raNRecv < MaxRaRecv
    /\ raNRecv' = raNRecv + 1
    /\ IF RaShouldDraw(m, f)
       THEN /\ raDrawn' = << m, f >>
            /\ raNDraw' = raNDraw + 1
            /\ raPc' = IF drawErr THEN "panic" ELSE "loop"
       ELSE UNCHANGED << raDrawn, raNDraw, raPc >>

\* 'case m = <-metrics' and the rest of the iteration.
RaRecvM(drawErr) ==
    /\ raPc = "loop"
    /\ Len(raMC) > 0
    /\ raM' = Head(raMC)
    /\ raLastM' = Head(raMC)
    /\ raMC' = Tail(raMC)
    /\ RaIterate(raM', raF, drawErr)
    /\ UNCHANGED << raF, raFC, raLastF >>
    /\ UNCHANGED notRa

\* 'case f = <-formatter' and the rest of the iteration.
RaRecvF(drawErr) ==
    /\ raPc = "loop"
    /\ Len(raFC) > 0
    /\ raF' = Head(raFC)
    /\ raLastF' = Head(raFC)
    /\ raFC' = Tail(raFC)
    /\ RaIterate(raM, raF', drawErr)
    /\ UNCHANGED << raM, raMC, raLastM >>
    /\ UNCHANGED notRa

RaNext ==
    \/ \E v \in RaMetrics : RaOfferM(v)
    \/ \E f \in RaFormats : RaOfferF(f)
    \/ \E drawErr \in BOOLEAN : RaRecvM(drawErr)
    \/ \E drawErr \in BOOLEAN : RaRecvF(drawErr)

RaSpec == RaInit /\ [][RaNext]_vars

(* ------------------------------ claims --------------------------------- *)

\* A step in which Start takes the tick case or receives a notification
\* from the relay goroutine.
TookTick == tickC' < tickC
TookNotification == relay /\ ~relay'
TookCompletion == Len(refreshed') < Len(refreshed)
Launched == nStarted' # nStarted

\* C1: at most one call of Guage.BatteryMetrics is in progress in every
\* reachable state, and whenever one is in progress the refreshing flag is
\* set, so that neither of two triggers arriving meanwhile starts another.
C1_SingleFlight ==
    /\ Cardinality(InCall) <= 1
    /\ InCall # {} => refreshing

\* Witness of C1: a fetch started by the loop is in progress, one trigger
\* has already been received and ignored, and both a tick and a
\* notification are pending.
C1_Witness ==
    /\ pc = "select"
    /\ \E t \in InCall : t.id >= 2
    /\ dropped
    /\ tickC > 0
    /\ relay /\ relayPc = "run"

\* C2 (as claimed): once Stop() has been called while Start's loop is
\* running, no step starts a fetch (stated for the runs in which the
\* notification channel is nil or open).
C2_NoFetchAfterStop ==
    [][(stopped /\ pc = "select" /\ change # "closed") => ~Launched]_vars

\* C3 (as claimed): the priming fetch is the only fetch and has returned
\* before Start waits, and the first value the consumer receives is not nil.
C3_FirstValueNotNil ==
    /\ pc = "priming" => nStarted = 1
    /\ (pc = "select" /\ nStarted = 1) => InCall = {}
    /\ firstRecv # Nil

\* C4: a fetch that returns an error leaves b.metrics equal to what it was
\* when that fetch was started, and every value in the output channel or
\* received by the consumer is nil or the result of a fetch that returned
\* no error.
C4_FailedFetchKeepsLatest ==
    /\ [](/\ \A i \in 1..Len(out) : out[i] \in okDone \cup {Nil}
          /\ firstRecv \in okDone \cup {Nil, None})
    /\ [][\A t \in tasks :
            (t.st = "call" /\
             [t EXCEPT !.st = "send", !.err = TRUE] \in tasks')
            => (metrics' = metrics /\ metrics' = t.before)]_vars

\* Witness of C4: a fetch has returned an error after an earlier fetch
\* succeeded, and the stored metrics are those of the earlier fetch.
C4_Witness ==
    \E t \in tasks :
        t.st = "send" /\ t.err /\ metrics # Nil /\ metrics = t.before

\* C5 (as claimed): a tick or notification that Start receives while
\* refreshing starts nothing and leaves the flag set; the completion step
\* clears the flag and starts nothing; and the loop starts a fetch only in
\* a step in which it receives a tick or a notification.
C5_TriggersDroppedNotQueued ==
    [][/\ (pc = "select" /\ refreshing /\ (TookTick \/ TookNotification))
          => (~Launched /\ tasks' = tasks /\ refreshing')
       /\ TookCompletion => (~Launched /\ tasks' = tasks /\ ~refreshing')
       /\ (pc = "select" /\ Launched)
          => (~refreshing /\ (TookTick \/ TookNotification))]_vars

\* C6: once Stop() has been called and Start is in its loop, Start
\* eventually returns.
C6_StartReturnsAfterStop ==
    (stopped /\ pc = "select") ~> (pc = "returned")

\* Witness of C6: Start has returned after Stop() although a tick and a
\* completion were still available.
C6_Witness ==
    /\ pc = "returned"
    /\ stopped
    /\ tickC > 0
    /\ Len(refreshed) > 0

\* C7 (as claimed): once the notification channel is closed, only a step
\* that takes the tick case starts a fetch.
C7_TimerOnlyAfterClose ==
    [][(change = "closed" /\ pc = "select" /\ Launched) => TookTick]_vars

\* C8 (as claimed): the result of a fetch that was in flight when Stop()
\* was called is neither stored in b.metrics nor sent on the output channel.
C8_ResultDiscarded ==
    /\ metrics \notin atStop
    /\ lastPub \notin atStop

\* C8 (amended): a fetch in flight when Stop() was called still returns,
\* and if it returns no error its result becomes b.metrics; once Start has
\* returned nothing more is sent on the output channel.
C8_ResultStoredNotSentAfterReturn ==
    [][/\ \A t \in tasks :
            (t.id \in atStop /\ t.st = "call" /\
             [t EXCEPT !.st = "send", !.err = FALSE] \in tasks')
            => metrics' = t.id
       /\ pc = "returned" => (Len(out') <= Len(out) /\ lastPub' = lastPub)
      ]_vars

\* Witness of C8: Start has returned and b.metrics holds the result of a
\* fetch that was in flight when Stop() was called, while the last value
\* sent on the output channel is a different one.
C8_Witness ==
    /\ pc = "returned"
    /\ metrics \in atStop
    /\ lastPub # metrics

\* C9 (as claimed): whenever a fetch has not returned, the first one
\* included, Start (if it has not returned) is at its select.
C9_NeverStalls ==
    (InCall # {} /\ pc # "returned") => pc = "select"

\* C9 (amended): whenever a fetch other than the priming fetch has not
\* returned, Start (if it has not returned) is at its select; while the
\* priming fetch has not returned Start is inside the call, not at its
\* select.
C9_OnlyPrimingStalls ==
    /\ \A t \in InCall : (t.id > 1 /\ pc # "returned") => pc = "select"
    /\ \A t \in InCall : t.id = 1 => pc = "priming"

\* Witness of C9: a fetch started by the loop has not returned while a tick
\* is pending and Stop() has been called, and Start is at its select.
C9_Witness ==
    /\ pc = "select"
    /\ \E t \in InCall : t.id > 1
    /\ tickC > 0
    /\ stopped

\* C10 (as claimed): every value sent on the output channel is the result
\* of a fetch that returned no error, the latest such fetch, and is not
\* older than the value sent before it.
C10_PublishedLatestInOrder ==
    [][Len(out') > Len(out)
       => (/\ out'[Len(out')] \in okDone
           /\ out'[Len(out')] = MaxOf(okDone)
           /\ lastPub <= out'[Len(out')]
           /\ lastPub' = out'[Len(out')])]_vars

\* C11: the completion case can be taken whenever a completion is waiting,
\* whatever the output channel holds; taken with a full output channel it
\* leaves the channel as it is (the value is skipped) and Start is back at
\* its select.
C11_PublishNeverBlocks ==
    /\ []((pc = "select" /\ Len(refreshed) > 0) => ENABLED SelectRefreshed)
    /\ [][(TookCompletion /\ Len(out) = CapC)
          => (out' = out /\ lastPub' = lastPub /\ pc' = "select"
              /\ ~refreshing')]_vars

\* Witness of C11: the completion of a fetch whose result is stored was
\* handled while the output channel was full, so that result was skipped,
\* and Start is at its select with a tick pending.
C11_Witness ==
    /\ pc = "select"
    /\ ~refreshing /\ tasks = {} /\ refreshed = << >>
    /\ Len(out) = CapC
    /\ metrics >= 2
    /\ lastPub # metrics
    /\ tickC > 0

\* C12 (as claimed): the step that receives the completion of a failed
\* fetch leaves Start in its loop, idle, and starts nothing; and after a
\* failed fetch the loop starts the next fetch only in a step in which it
\* receives a tick or a notification.
C12_NoRetryAfterFailure ==
    [][/\ (TookCompletion /\ Head(refreshed))
          => (pc' = "select" /\ ~Launched /\ ~refreshing' /\ tasks' = tasks)
       /\ (pc = "select" /\ Launched /\ nStarted \notin okDone)
          => (TookTick \/ TookNotification)]_vars

\* C13: whoever is at its write of the cell holds the mutex for writing,
\* whoever is at its read holds it for reading, and no reader is at its
\* read while the fetch task is at its write.
C13_CellAccessUnderMutex ==
    /\ \A p \in MuWriters : muPc[p] \in {"write", "unlock"} => muW = p
    /\ \A p \in MuReaders : muPc[p] \in {"read", "runlock"} => p \in muR
    /\ \A w \in MuWriters, r \in MuReaders :
          ~(muPc[w] = "write" /\ muPc[r] = "read")
    /\ muW # "none" => muR = {}

\* Witness of C13: a caller of BatteryMetrics() waits for the read lock
\* while the fetch task, holding the mutex, is at its write of a second
\* value, and Start's publish step has read the first.
C13_Witness ==
    /\ muPc["fetch"] = "write"
    /\ muPc["get"] = "rlock"
    /\ muCell # Nil /\ muVal # muCell
    /\ muGot["pub"] = muCell

\* A step in which caller c's reply channel gets its answer.
BpAnswered(c) == bpCaller[c] # "reply" /\ bpCaller'[c] = "reply"

\* C14 (as claimed): a Metrics() call is answered without a fetch of the
\* source, and the answer is the value published last.
C14_MetricsWithoutFetch ==
    [][\A c \in BpCallers :
          BpAnswered(c)
          => (bpFetches' = bpFetches /\ bpResp'[c] = bpLastPub')]_vars

\* C14 (amended): Start takes a Metrics() call's reply channel without a
\* fetch and goes into refreshMetrics, where the caller waits for it; the
\* call is answered in the step in which that one fetch returns: the answer
\* is b.metrics after the fetch (its result, or the value stored before if
\* it failed), and if that iteration sends a value on c it is the same.
C14_MetricsAfterOneFetch ==
    /\ [][\A c \in BpCallers :
            (bpCaller[c] = "ping" /\ bpCaller'[c] # "ping")
            => (/\ bpCaller'[c] = "wait"
                /\ bpPc' = "refresh"
                /\ bpPing' = c
                /\ bpFetches' = bpFetches)]_vars
    /\ [](\A c \in BpCallers :
            bpCaller[c] = "wait" => (bpPc = "refresh" /\ bpPing = c))
    /\ [][\A c \in BpCallers :
            BpAnswered(c)
            => (/\ bpCaller[c] = "wait"
                /\ bpFetches' = bpFetches + 1
                /\ bpResp'[c] = bpMetrics'
                /\ bpMetrics' \in {bpMetrics, bpFetches'}
                /\ Len(bpOut') > Len(bpOut)
                   => bpOut'[Len(bpOut')] = bpResp'[c])]_vars

\* Witness of C14: Metrics() has returned the result of the fetch made for
\* it, a value that was not sent on c because the channel was full.
C14_Witness ==
    \E c \in BpCallers :
        /\ bpCaller[c] = "done"
        /\ bpGot[c] = bpFetches
        /\ bpFetches >= 2
        /\ bpLastPub # bpGot[c]
        /\ bpLastPub # None

\* C15: when Start has returned, the ticker is stopped and the stop
\* function of the subscription has been called (_done is closed whenever a
\* relay goroutine was started); the relay goroutine then terminates, and
\* no notification is delivered after the return.
C15_ReleasedOnReturn ==
    /\ [](pc = "returned" => (~tickerOn /\ (relayPc # "off" => done)))
    /\ ((pc = "returned" /\ relayPc = "run") ~> (relayPc = "exit"))
    /\ [][(pc = "returned" \/ relayPc = "exit") => ~TookNotification]_vars

\* Witness of C15: Start has returned, the ticker is stopped, _done is
\* closed and the relay goroutine has ended with a signal it never relayed.
C15_Witness ==
    /\ pc = "returned"
    /\ ~tickerOn
    /\ done
    /\ relayPc = "exit"
    /\ relay

\* Steps of the rotator: it sends a format, it takes a tick, the consumer
\* receives a format.
RotSent == Len(fmtC') > Len(fmtC)
RotTicked == rotTickC' < rotTickC
RotReceived == Len(fmtC') < Len(fmtC)

\* C16: the consumer that receives once per interval, starting in the first
\* interval, receives the formats in list order, cyclically: its k-th
\* receive (k = 0, 1, ...) yields items[k mod len(items)]; with [A, B, C]
\* that is A, B, C, A, ...
C16_PacedConsumerSeesCycle ==
    [][(rotPaced /\ RotReceived)
       => /\ Head(fmtC) = rotItems[(rotRecvN % Len(rotItems)) + 1]
          /\ rotItems = << "A", "B", "C" >>
             => Head(fmtC) = << "A", "B", "C", "A", "B", "C" >>[(rotRecvN % 6) + 1]]_vars

\* Witness of C16: with [A, B, C] the paced consumer has received four
\* formats, the fourth (A again, sent from index 0) after a full cycle.
C16_Witness ==
    /\ rotPaced
    /\ rotItems = << "A", "B", "C" >>
    /\ rotRecvN = 4
    /\ rotLastSent = 0

\* C17: the index stays within 0..len(items)-1; a tick sets it to
\* (index + 1) mod len(items); every value sent is items[index] at the
\* time of the send; with the single format [A] only A is ever in the
\* channel.
C17_IndexInRangeAndSentIsCurrent ==
    /\ [](rotPc = "run" => (0 <= rotI /\ rotI < Len(rotItems)))
    /\ [][RotTicked => rotI' = (rotI + 1) % Len(rotItems)]_vars
    /\ [][RotSent => (fmtC' = Append(fmtC, rotItems[rotI + 1]) /\ rotI' = rotI)]_vars
    /\ []((rotPc = "run" /\ Len(rotItems) = 1)
          => \A k \in 1..Len(fmtC) : fmtC[k] = "A")

\* Witness of C17: the rotator built with [A] has gone through ticks, the
\* consumer has received A three times and a fourth A is in the channel.
C17_Witness ==
    /\ rotItems = << "A" >>
    /\ rotI = 0
    /\ rotRecvN = 3
    /\ fmtC = << "A" >>

\* C18 (as claimed): a send other than the first happens only after the
\* index has changed since the send before.
C18_NoReofferUntilIndexChanges ==
    [][RotSent => (rotLastSent = None \/ rotIdxChanged)]_vars

\* C18 (amended): after a send the rotator does not send again until it has
\* taken a timer tick: a send needs _c set and clears it, and only a tick
\* sets it again; with two or more formats that tick has changed the index.
C18_NoReofferUntilNextTick ==
    [][/\ RotSent => (rotArmed /\ ~rotArmed')
       /\ (~rotArmed /\ rotArmed') => RotTicked
       /\ (RotSent /\ Len(rotItems) >= 2 /\ rotLastSent # None)
          => rotIdxChanged]_vars

\* Witness of C18: with a single format the same format has been sent
\* again, after a tick that left the index unchanged.
C18_Witness ==
    /\ Len(rotItems) = 1
    /\ rotResent
    /\ ~rotIdxChanged
    /\ ~rotArmed

\* C19: a delivered tick can always be taken, whatever the state of the
\* output channel, and is eventually taken; taking it with a send pending
\* on a full channel advances the index.
C19_TimerLoopNeverBlocks ==
    /\ []((rotPc = "run" /\ rotTickC > 0) => ENABLED RotTick)
    /\ ((rotTickC > 0) ~> (rotTickC = 0))
    /\ [][(RotTicked /\ rotArmed /\ Len(fmtC) = CapF)
          => (rotI' = (rotI + 1) % Len(rotItems) /\ rotArmed' /\ fmtC' = fmtC)]_vars

\* Witness of C19: the subscriber has never received, the channel is full
\* with the first format, and two ticks have been processed meanwhile.
C19_Witness ==
    /\ rotRecvN = 0
    /\ fmtC = << "A" >>
    /\ rotI = 2
    /\ rotArmed
    /\ rotTickC = 0

\* C20 (as claimed): once the application asks the rotator to stop, its
\* task eventually returns with its ticker stopped.
C20_RotatorStops ==
    rotStopReq ~> (rotPc = "returned" /\ ~rotTickerOn)

\* Steps of the CPU pipeline: Delta receives a sample, Delta delivers a
\* value, the Poller's loop polls the counters.
DlReceived == dlNRecv' > dlNRecv
DlSent == dlNGot' > dlNGot
PlPolled == plNPoll' > plNPoll

\* Two samples have the same shape: the same CPU names in the same order,
\* with as many counters each.
SameShape(a, b) ==
    /\ Len(a) = Len(b)
    /\ \A i \in 1..Len(a) : /\ a[i].name = b[i].name
                            /\ Len(a[i].InMode) = Len(b[i].InMode)

\* Field-wise subtraction of two samples of the same shape.
FieldwiseSub(cur, prev) ==
    [i \in 1..Len(cur) |->
        [name |-> cur[i].name,
         InMode |-> [k \in 1..Len(cur[i].InMode) |->
                        cur[i].InMode[k] - prev[i].InMode[k]]]]

\* C21: a value is delivered only when two samples have been received, and
\* when the last two samples received have the same shape the value
\* delivered is their field-wise difference, names preserved; the counters
\* [100,50,0,200] then [110,52,0,210] give [10,2,0,10].
C21_DeltaIsFieldwiseSub ==
    [][DlSent
       => /\ dlNRecv >= 2
          /\ dlPrev # << >>
          /\ SameShape(dlPrev, dlOld)
             => dlLastGot' = FieldwiseSub(dlOld, dlPrev)
          /\ (dlPrev = << MkTime("cpu", << 100, 50, 0, 200 >>) >>
              /\ dlOld = << MkTime("cpu", << 110, 52, 0, 210 >>) >>)
             => dlLastGot' = << MkTime("cpu", << 10, 2, 0, 10 >>) >>]_vars

\* Witness of C21: the consumer has received the delta [10,2,0,10] of the
\* samples [100,50,0,200] and [110,52,0,210] of the CPU "cpu".
C21_Witness ==
    /\ dlNGot >= 1
    /\ dlPrev = << MkTime("cpu", << 100, 50, 0, 200 >>) >>
    /\ dlLastGot = << MkTime("cpu", << 10, 2, 0, 10 >>) >>

\* C22 (as claimed): when Delta receives a sample whose shape differs from
\* the previous sample's, it does not fail, it records the new sample as
\* the baseline, and it arms no delivery for that cycle.
C22_ShapeChangeIsReset ==
    [][(DlReceived /\ dlOld # << >> /\ ~SameShape(dlOld, Head(plC)))
       => /\ dlPc' = "run"
          /\ dlOld' = Head(plC)
          /\ (~dlArmed' \/ (dlArmed /\ dlDelta' = dlDelta))]_vars

\* C26: once the Poller's channel is closed the channel d is eventually
\* closed; Delta's return closes d only after its input is closed; and
\* nothing is delivered on d once it is closed.
C26_OutputClosedAfterInput ==
    /\ (plCClosed ~> dlOutClosed)
    /\ []((dlPc = "returned") => (plCClosed /\ dlOutClosed))
    /\ [][dlOutClosed => ~DlSent]_vars

\* Witness of C26: Delta has returned and closed d while a computed delta
\* was still waiting to be delivered.
C26_Witness ==
    /\ dlPc = "returned"
    /\ dlOutClosed
    /\ dlArmed
    /\ dlNGot = 0

\* C27 (as claimed): once Stop has returned, the loop polls no more.
C27_NoPollAfterStop ==
    [][plStopped => ~PlPolled]_vars

\* The CPUs of a slice whose name is not in the ignore list, in order.
RECURSIVE FcKept(_, _)
FcKept(cpus, ignore) ==
    IF cpus = << >> THEN << >>
    ELSE (IF \E k \in 1..Len(ignore) : ignore[k] = Head(cpus)
          THEN << >> ELSE << Head(cpus) >>) \o FcKept(Tail(cpus), ignore)

\* C23 (as claimed): the slice FilterCPU forwards consists of exactly the
\* received CPUs whose name is not in the ignore list, once each, in order.
C23_FilterRemovesIgnored ==
    /\ [][(fcPc = "send" /\ fcPc' = "recv")
            => fcOut' = FcKept(fcIn, fcIgnore)]_vars
    /\ [][(fcPc = "none" /\ fcIn' # fcIn)
            => fcOut' = FcKept(fcIn', fcIgnore)]_vars

\* C24 (as claimed): for a counter vector of zeros FracUtil returns 0.
C24_ZeroCountsGiveZero ==
    (frPc = "done" /\ \A k \in 1..Len(frT) : frT[k] = 0)
    => frRes.kind = "zero"

\* x * 2^QuotBits as a bit sequence, for a float64 x with 0 <= x <= 1.
FrFix(x) ==
    IF x.kind = "zero" THEN Zeros(QuotBits + 1)
    ELSE Pad(x.mant \o Zeros(QuotBits - (MantBits - 1) + x.exp),
             QuotBits + 1)

\* |x - p / q| <= 2^-MantBits for a float64 x and integers 0 <= p <= q,
\* q > 0: the quotient is worked out by long division to QuotBits places.
FrWithin(x, p, q) ==
    LET fix == FrFix(x)
        quo == << p \div q >> \o DivBits(p % q, q, QuotBits)
        exact == DivRem(p % q, q, QuotBits) = 0
        tol == Pad(<< 1 >> \o Zeros(QuotBits - MantBits), QuotBits + 1)
        hi == AddBits(fix, tol)
    IN  /\ GeBits(AddBits(quo, tol), << 0 >> \o fix)
        /\ GeBits(hi, << 0 >> \o quo)
        /\ exact \/ hi # << 0 >> \o quo

\* The float64 0x3FD3333333333334, which prints as 0.30000000000000004.
FrThreeTenths ==
    [kind |-> "num", sgn |-> 1, exp |-> 0 - 2,
     mant |-> << 1 >> \o [i \in 1..(MantBits - 5) |->
                            IF (i - 1) % 4 >= 2 THEN 1 ELSE 0]
                     \o << 0, 1, 0, 0 >>]

\* C25: for a counter vector with a non-zero sum FracUtil returns a
\* float64 between 0 and 1 that is 1 - InMode[3] / sum up to the rounding
\* of its two operations, at most 2^-53 in all; for [10,10,10,70] it is
\* 0.30000000000000004, that is 0.30.
C25_FracUtilFormula ==
    (frPc = "done" /\ FrTotal(frT) # 0)
    => /\ frRes.kind \in { "zero", "num" }
       /\ frRes.sgn = 1
       /\ frRes.exp <= 0
       /\ FrWithin(frRes, FrTotal(frT) - frT[ModeIdle + 1], FrTotal(frT))
       /\ frT = << 10, 10, 10, 70 >> => frRes = FrThreeTenths

\* Witness of C25: FracUtil has returned 0.30000000000000004 for
\* [10,10,10,70].
C25_Witness ==
    /\ frPc = "done"
    /\ frT = << 10, 10, 10, 70 >>
    /\ frRes = FrThreeTenths

\* The dimensions and offsets of well-formed geometry strings, with the
\* numbers they denote.
PgDimVal == (<< "1" >> :> 1) @@ (<< "2" >> :> 2) @@ (<< "1", "0" >> :> 10)
PgOffVal == (<< "+", "3" >> :> 3) @@ (<< "-", "3" >> :> 0 - 3)
            @@ (<< "+", "4" >> :> 4) @@ (<< "-", "4" >> :> 0 - 4)
            @@ (<< "+", "1" >> :> 1)

\* A non-empty run of ASCII digits; a sign followed by such a run.
PgIsNum(t) == Len(t) >= 1 /\ \A i \in 1..Len(t) : IsAsciiDigit(t[i])
PgIsOff(t) == Len(t) >= 2 /\ t[1] \in { "-", "+" } /\ PgIsNum(Tail(t))

\* s is "WxH" or "WxH<sx>X<sy>Y".
PgWellFormed(s) ==
    \E i \in 1..Len(s) :
        /\ s[i] = "x"
        /\ PgIsNum(SubSeq(s, 1, i - 1))
        /\ \/ PgIsNum(SubSeq(s, i + 1, Len(s)))
           \/ \E j \in (i + 1)..Len(s), k \in (i + 1)..Len(s) :
                 /\ j < k
                 /\ PgIsNum(SubSeq(s, i + 1, j - 1))
                 /\ PgIsOff(SubSeq(s, j, k - 1))
                 /\ PgIsOff(SubSeq(s, k, Len(s)))

\* C28: "WxH" gives the rectangle (0,0)-(W,H) and "WxH<sx>X<sy>Y" the
\* rectangle (x,y)-(x+W,y+H), both with a nil error; "1x2-3-4" gives
\* (-3,-4)-(-2,-2).
C28_ParsesWellFormed ==
    pgPc = "done"
    => /\ \A w \in DOMAIN PgDimVal, h \in DOMAIN PgDimVal :
            /\ pgIn = w \o << "x" >> \o h
               => pgOut = [rect |-> << 0, 0, PgDimVal[w], PgDimVal[h] >>,
                           err |-> NilErr]
            /\ \A ox \in DOMAIN PgOffVal, oy \in DOMAIN PgOffVal :
                  pgIn = w \o << "x" >> \o h \o ox \o oy
                  => pgOut = [rect |-> << PgOffVal[ox], PgOffVal[oy],
                                          PgOffVal[ox] + PgDimVal[w],
                                          PgOffVal[oy] + PgDimVal[h] >>,
                              err |-> NilErr]
       /\ pgIn = << "1", "x", "2", "-", "3", "-", "4" >>
          => pgOut.rect = << 0 - 3, 0 - 4, 0 - 2, 0 - 2 >>

\* Witness of C28: "1x2-3-4" has been parsed to (-3,-4)-(-2,-2).
C28_Witness ==
    /\ pgPc = "done"
    /\ pgIn = << "1", "x", "2", "-", "3", "-", "4" >>
    /\ pgOut.rect = << 0 - 3, 0 - 4, 0 - 2, 0 - 2 >>
    /\ pgOut.err = NilErr

\* C29 (as claimed): for a string of neither form parseGeometry returns the
\* zero rectangle and an error that names an element of the syntax.
C29_MalformedNamesElement ==
    (pgPc = "done" /\ ~PgWellFormed(pgIn))
    => /\ pgOut.rect = ZR
       /\ pgOut.err \in { ErrWidth, ErrDelim, ErrHeight, ErrXOffset,
                          ErrYOffset, ErrEnd }

\* C30: app.Draw is called at most once per step, only in a step that
\* receives from one of the channels, only with a non-nil metrics value and
\* a non-nil formatter, and with the values received last from the two
\* channels.
C30_DrawsLatestPair ==
    [][/\ raNDraw' \in { raNDraw, raNDraw + 1 }
       /\ raNDraw' = raNDraw + 1
          => /\ raNRecv' = raNRecv + 1
             /\ raM' # Nil
             /\ raF' # Nil
             /\ raDrawn' = << raM', raF' >>
             /\ raDrawn' = << raLastM', raLastF' >>
       /\ raNRecv' <= raNRecv + 1]_vars

\* Witness of C30: of four receipts two led to a draw, the last of them
\* with the metrics and the formatter received last.
C30_Witness ==
    /\ raNRecv = 4
    /\ raNDraw = 2
    /\ raDrawn = << raLastM, raLastF >>
    /\ raDrawn = << 2, 2 >>

\* C33: the fetches in progress (their completion send included) and the
\* completions waiting in 'refreshed' are together at most one, the
\* capacity of 'refreshed'; so the completion send of a fetch whose call
\* has returned can always be performed, also once Start has returned,
\* and every fetch goroutine ends.
C33_CompletionSendNeverBlocks ==
    /\ [](Cardinality(tasks) + Len(refreshed) <= CapRefreshed)
    /\ [](\A t \in tasks : t.st = "send" => ENABLED FetchSend(t))
    /\ (tasks # {}) ~> (tasks = {})

\* Witness of C33: Start has returned on Stop with a fetch in flight; that
\* fetch has since returned and its goroutine has left its completion in
\* 'refreshed', which nobody reads any more.
C33_Witness ==
    /\ pc = "returned"
    /\ atStop # {}
    /\ tasks = {}
    /\ Len(refreshed) = CapRefreshed
    /\ metrics \in atStop

\* C34: a value waiting in the output channel is never newer than the
\* stored metrics and is not replaced: the completion of a newer fetch
\* taken while the channel is full leaves the channel as it is, so what
\* the consumer receives next is the older value.
C34_BufferedValueNotReplaced ==
    /\ [](\A k \in 1..Len(out) : out[k] <= metrics)
    /\ [][(TookCompletion /\ Len(out) = CapC) => out' = out]_vars

\* Witness of C34: the consumer has received nothing; the channel holds
\* the result of fetch 1 while the stored metrics are those of a later
\* fetch whose completion has been handled.
C34_Witness ==
    /\ Len(out) = CapC
    /\ firstRecv = None
    /\ out[1] = 1
    /\ metrics > 1
    /\ tasks = {} /\ refreshed = << >> /\ ~refreshing
    /\ pc = "select" /\ ~stopped

\* C35: Start called on a stopped Profiler still launches the priming
\* fetch and waits for it at its select; it never returns without having
\* fetched, and a value is sent on the output channel only by a step that
\* takes the completion case.
C35_StopBeforeStartStillPrimes ==
    /\ [][(pc = "init" /\ stopped /\ pc' # pc)
          => (pc' = "priming" /\ Launched)]_vars
    /\ [][pc = "priming" => pc' \in {"priming", "select"}]_vars
    /\ [](pc = "returned" => nStarted >= 1)
    /\ [][lastPub' # lastPub => (TookCompletion /\ pc = "select")]_vars

\* Witness of C35: Stop was called before Start (no fetch was in flight at
\* Stop) and Start is waiting for its priming fetch, whose call has not
\* returned.
C35_Witness ==
    /\ pc = "priming"
    /\ stopped
    /\ atStop = {}
    /\ InCall # {}
    /\ nStarted = 1

\* C32 (as claimed): once Stop() has been called on the Poller, the loop
\* returns and closes C, the channels of Delta, TimeToCPU and FilterCPU are
\* closed, and RunApp returns and closes app.done.
C32_ShutdownPropagates ==
    plStopped ~> ( /\ plCClosed /\ dlOutClosed /\ tcCClosed
                   /\ (ffPc # "none" => ffCClosed)
                   /\ appPc = "returned" /\ appDone )

\* A step in which the Poller's loop sends on C.
PlSent == Len(plC') > Len(plC)

\* What the Poller has sent or is about to send: the samples received by
\* Delta, the one waiting in C and the one the loop offers.
PlHandedOut == dlNRecv + Len(plC) + (IF plArmed THEN 1 ELSE 0)

\* C36: the value Delta sends is the difference, as Delta computes it, of
\* the two samples it received last; a send disarms the send case and only
\* the receipt of a further sample arms it again, so no delta is sent
\* twice; a sample received while a delta waits replaces that delta by the
\* difference of the newest two samples.
C36_LatestDeltaAtMostOnce ==
    /\ [][DlSent => /\ dlArmed /\ ~dlArmed'
                    /\ dlNRecv >= 2
                    /\ dlLastGot' = DeltaOf(dlPrev, dlOld)]_vars
    /\ [][(~dlArmed /\ dlArmed') => DlReceived]_vars
    /\ [][(DlReceived /\ dlPc' = "run" /\ dlOld # << >>)
          => (dlArmed' /\ dlDelta' = DeltaOf(dlOld, Head(plC)))]_vars
    /\ [](dlNGot >= 1 => dlNGot <= dlNRecv - 1)

\* Witness of C36: Delta received three samples of the CPU "cpu" before
\* its consumer received anything; the one value delivered is the
\* difference [0,0,0,0] of the last two samples, both [110,52,0,210], and
\* the delta of the first two samples was never delivered.
C36_Witness ==
    /\ dlPc = "run"
    /\ dlNRecv = 3
    /\ dlNGot = 1
    /\ ~dlArmed
    /\ dlPrev = << MkTime("cpu", << 110, 52, 0, 210 >>) >>
    /\ dlOld = dlPrev
    /\ dlLastGot = << MkTime("cpu", << 0, 0, 0, 0 >>) >>

\* C37 (as claimed): the loop sends only after a successful poll, each
\* polled sample at most once, and what the consumer receives is the
\* sample polled last.
C37_ConsumerGetsMostRecent ==
    /\ [][PlSent => plNOk >= 1]_vars
    /\ [](PlHandedOut <= plNOk)
    /\ [][DlReceived => Head(plC) = plTimes]_vars

\* C37 (amended): the loop sends only after a successful poll and each
\* polled sample at most once; what it sends is the sample polled last at
\* the time of the send, and a sample waiting in C is not replaced by a
\* later one; a failed poll leaves p.times, the loop's c and C as they
\* are, a successful one sets c.
C37_SendsLatestAtSendTime ==
    /\ [][PlSent => /\ plArmed /\ ~plArmed'
                    /\ plNOk >= 1
                    /\ plC' = Append(plC, plTimes)]_vars
    /\ [](PlHandedOut <= plNOk)
    /\ [][(~plArmed /\ plArmed') => (PlPolled /\ plNOk' = plNOk + 1)]_vars
    /\ [][(PlPolled /\ plNOk' = plNOk)
          => (plTimes' = plTimes /\ plArmed' = plArmed /\ plC' = plC)]_vars
    /\ [][(PlPolled /\ plNOk' > plNOk) => (plArmed' /\ plC' = plC)]_vars

\* Witness of C37: three polls succeeded and the consumer has received
\* nothing; the first sample waits in C, the third, a different one, is
\* offered, and the second was never sent.
C37_Witness ==
    /\ plPc = "loop"
    /\ plNOk = 3
    /\ dlNRecv = 0
    /\ Len(plC) = CapPollC
    /\ plArmed
    /\ plC[1] # plTimes

\* The number of values the Poller's loop has sent on C.
PlNSent == dlNRecv + Len(plC)

\* C38 (amended): before the first successful poll of the loop nothing is
\* sent or offered on C, and the loop's c is set only by a successful poll,
\* which has replaced p.times; what is sent is p.times at the time of the
\* send, so the k-th value sent is the result of the k-th successful poll
\* or of a later one; Delta receives results of timer-driven polls only,
\* and a delta is delivered only after two of them were received.
C38_InitialSampleNeverSent ==
    /\ [](plNOk = 0 => (plC = << >> /\ ~plArmed /\ dlNRecv = 0))
    /\ [][(~plArmed /\ plArmed') => (PlPolled /\ plNOk' > plNOk)]_vars
    /\ [](dlNRecv >= 1 => plNOk >= dlNRecv)
    /\ [](dlNGot >= 1 => plNOk >= 2)
    /\ [][PlSent => (/\ plNOk >= PlNSent + 1
                     /\ plC' = Append(plC, plTimes))]_vars
    /\ [][DlSent => dlNRecv >= 2]_vars

\* C38 (as claimed): nothing is sent before the first successful poll; the
\* first value sent is the result of the first successful poll and the
\* second that of the second, so that the first delta delivered spans the
\* first two successful polls.
C38_FirstSentIsFirstPoll ==
    /\ [](plNOk = 0 => (plC = << >> /\ ~plArmed /\ dlNRecv = 0))
    /\ [][(PlSent /\ PlNSent = 0) => plNOk = 1]_vars
    /\ [][(PlSent /\ PlNSent = 1) => plNOk = 2]_vars
    /\ [][(DlSent /\ dlNGot = 0) => dlNRecv = 2]_vars

\* Witness of C38: the timer fired twice and both polls succeeded before
\* the loop sent anything; the one value sent, which waits in C, is the
\* result of the second poll.
C38_Witness ==
    /\ plPc = "loop"
    /\ plNPoll = 2
    /\ plNOk = 2
    /\ ~plArmed
    /\ dlNRecv = 0
    /\ plC = << plTimes >>

\* C39: a call of Stop on a Profiler or on a Poller that has been stopped
\* can only end in the panic of the process, and the process panics in
\* Stop in no other case: the first call leaves it running.
C39_SecondStopPanics ==
    /\ []((stopped /\ ~Panicked) => ENABLED (StopAgain /\ pc' = "panic"))
    /\ []((plStopped /\ CpuAlive /\ ~Panicked)
          => ENABLED (PlStopAgain /\ plPc' = "panic"))
    /\ [][(~stopped /\ stopped') => (pc' = pc /\ ~Panicked')]_vars
    /\ [][(~plStopped /\ plStopped') => (plPc' = plPc /\ ~Panicked')]_vars
    /\ [](pc = "panic" => stopped)
    /\ [](plPc = "panic" => plStopped)
    /\ [][Panicked => UNCHANGED vars]_vars

\* Witness of C39: the Poller was stopped while its loop was polling and
\* Delta delivering, and a second call of Stop has panicked.
C39_Witness ==
    /\ plPc = "panic"
    /\ plStopped
    /\ ~plCClosed
    /\ dlNGot >= 1

\* C40 (amended): a Metrics() call blocked in its send on b.ping goes on
\* only in a step of Start's running loop, which then can take it: a call
\* made while Start has not been called stays blocked until then, and once
\* Start has returned a call stays blocked for ever, as does a callback
\* blocked in its send on b.connect, which can still fire then.
C40_MetricsOnlyWhileRunning ==
    /\ [][\A c \in BpCallers :
            (bpCaller[c] = "ping" /\ bpPc # "select")
            => bpCaller'[c] = "ping"]_vars
    /\ [][(bpCb = "send" /\ bpPc # "select") => bpCb' = "send"]_vars
    /\ [][bpPc = "returned" => bpPc' = "returned"]_vars
    /\ \A c \in BpCallers :
         []((bpPc = "returned" /\ bpCaller[c] = "ping")
            => [](bpCaller[c] = "ping"))
    /\ []((bpPc = "returned" /\ bpCb = "send") => [](bpCb = "send"))
    /\ []((bpPc = "returned" /\ bpCb = "idle") => ENABLED BpConnectEvent)
    /\ [](\A c \in BpCallers :
            (bpPc = "select" /\ bpCaller[c] = "ping" /\ bpFetches < MaxFetch)
            => ENABLED BpSelectPing(c))

\* C40 (as claimed): all of that, and a call made before Start is called
\* stays blocked for ever.
C40_CallBeforeStartBlocksForever ==
    /\ C40_MetricsOnlyWhileRunning
    /\ [][\A c \in bpEarly :
            bpCaller[c] = "ping" => bpCaller'[c] = "ping"]_vars

\* Witness of C40: a Metrics() call made before Start was answered once
\* the loop ran; Start has returned on Stop, and now a second Metrics()
\* call is blocked on b.ping and a callback on b.connect.
C40_Witness ==
    /\ bpPc = "returned"
    /\ bpStopped
    /\ 1 \in bpEarly
    /\ bpCaller[1] = "done"
    /\ bpGot[1] # None
    /\ bpCaller[2] = "ping"
    /\ 2 \notin bpEarly
    /\ bpCb = "send"

\* A step in which the relay goroutine takes a signal out of g.sig.
RlTook == Len(rlSig') < Len(rlSig)

\* C31: relay is set exactly when a signal of the watched device has been
\* taken since the last notification was delivered, however many were
\* taken; a delivery clears it, so one notification is delivered for all
\* of them; taking a signal of another path changes nothing; and a waiting
\* signal can be taken whether or not a notification is pending.
C31_OnePendingNotification ==
    /\ [](rlArmed <=> rlOwn >= 1)
    /\ [][rlNDeliv' # rlNDeliv
          => (/\ rlArmed /\ ~rlArmed'
              /\ rlNDeliv' = rlNDeliv + 1
              /\ rlOwn' = 0)]_vars
    /\ [][(RlTook /\ Head(rlSig) # RlDev)
          => (rlArmed' = rlArmed /\ rlNDeliv' = rlNDeliv)]_vars
    /\ [][(RlTook /\ Head(rlSig) = RlDev)
          => (rlArmed' /\ rlNDeliv' = rlNDeliv)]_vars
    /\ []((rlPc = "run" /\ rlSig # << >>) => ENABLED RlIntake)
    /\ [](rlNDeliv <= rlNOwn)

\* Witness of C31: three signals were taken, two of the watched device and
\* one of another; both of the watched device were taken before the one
\* notification was delivered, and none is pending.
C31_Witness ==
    /\ rlPc = "run"
    /\ rlNSig = 3
    /\ rlSig = << >>
    /\ rlNOwn = 2
    /\ rlNDeliv = 1
    /\ ~rlArmed

=============================================================================
